---- MODULE Spec2Model ----
(***************************************************************************)
(* Model of the fioc dependency-injection container (core/token.ts,        *)
(* buildDIContainer and the container it finalizes).                       *)
(*                                                                         *)
(* A token is the object {key, metadata}; the state is keyed by the key    *)
(* string.  Values are modelled as tagged records with an identity (id),   *)
(* so that reference equality (===) is record equality.                    *)
(***************************************************************************)
EXTENDS Integers, Sequences, FiniteSets, TLC

VARIABLES
    builder,      \* containerState of the builder at the end of the chain
    nregs,        \* number of builder operations performed (bounds the run)
    containers,   \* finalized containers: the containerState each closes over
    scopes,       \* createScope invocations: container, instances cache, ...
    cells,        \* the `instance` variable of every defineSingleton closure
    heap,         \* number of factory function invocations so far (object ids)
    returned,     \* history: values returned by container.resolve, per token
    written,      \* history: the latest registration made for each key
    finalized,    \* history: `written` at the getResult of each container
    last,         \* history: the last operation, its inputs and its outcome
    manager,      \* containerManagerState of the manager builder in hand
    managers,     \* finalized managers: the state each closes over
    registered    \* history: the successful registerContainer calls

vars == <<builder, nregs, containers, scopes, cells, heap, returned, written,
          finalized, last, manager, managers, registered>>

----------------------------------------------------------------------------
(* Bounds of the model *)

MaxRegs == 3
MaxContainers == 1
MaxScopes == 1
MaxHeap == 2
MaxStack == 6
\* the exploration of scopes (SpecScopes): createScope calls, and factory
\* function invocations in all
ScopesMaxScopes == 2
ScopesMaxHeap == 3
\* the exploration of merge (SpecMerge): register, registerFactory and merge
\* calls in all, containers, and factory function invocations in all
MergeMaxRegs == 3
MergeMaxContainers == 2
MergeMaxHeap == 1
\* the exploration of the metadata index and of the registerFactory payloads
\* (SpecIndex): registrations, containers, factory function invocations
IndexMaxRegs == 3
IndexMaxContainers == 1
IndexMaxHeap == 1
\* the exploration of the createScope callbacks (SpecCallback)
CallbackMaxRegs == 2
CallbackMaxContainers == 1
CallbackMaxScopes == 2
CallbackMaxHeap == 2
\* the exploration of cyclic dependencies (SpecCycle)
CycleMaxRegs == 3
CycleMaxContainers == 1
CycleMaxScopes == 1
CycleMaxHeap == 1
\* the exploration of containers finalized from one chain (SpecShared)
SharedMaxRegs == 2
SharedMaxContainers == 2
SharedMaxScopes == 1
SharedMaxHeap == 2
\* the exploration of tokens that share a key (SpecKeys)
KeysMaxRegs == 3
KeysMaxContainers == 1
KeysMaxHeap == 1
StrictMaxRegs == 3
StrictMaxContainers == 1
StrictMaxHeap == 1
ManagerMaxRegs == 1
ManagerMaxContainers == 2
ManagerMaxManagers == 2
\* the exploration of createScope calls that are not awaited (SpecSync)
SyncMaxRegs == 2
SyncMaxContainers == 1
SyncMaxScopes == 2
SyncMaxHeap == 3
\* the exploration of singletons (SpecSingleton)
SingletonMaxRegs == 2
SingletonMaxContainers == 1
SingletonMaxScopes == 2
SingletonMaxHeap == 3
\* the exploration of the Self Token in scopes (SpecView)
ViewMaxRegs == 2
ViewMaxContainers == 1
ViewMaxScopes == 2
ViewMaxHeap == 3
\* the exploration of failing scoped resolves (SpecFail)
FailMaxRegs == 2
FailMaxContainers == 1
FailMaxScopes == 2
FailMaxHeap == 4

----------------------------------------------------------------------------
(* Tokens: createDIToken<T>().as(key, metadata) builds the object          *)
(* {key, metadata}; `id` is the identity of that object.                   *)

NoMetadata == [has |-> FALSE, implements |-> <<>>, generics |-> <<>>]

Metadata(impl, gen) == [has |-> TRUE, implements |-> impl, generics |-> gen]

createDIToken(id, key, metadata) == [id |-> id, key |-> key, metadata |-> metadata]

DIContainer == createDIToken(0, "DIContainer", NoMetadata)

TBase == createDIToken(4, "Base", NoMetadata)
TGen == createDIToken(5, "Gen", NoMetadata)
TA == createDIToken(1, "A", NoMetadata)
TB == createDIToken(2, "B", Metadata(<<TBase>>, <<TGen>>))
TC == createDIToken(3, "C", NoMetadata)
TProd == createDIToken(7, "Prod", NoMetadata)
TD == createDIToken(6, "D", Metadata(<<TBase>>, <<TProd>>))
\* further tokens created with keys already in use: createDIToken<T>().as("A")
\* and createDIToken<T>().as("DIContainer") called again
TA2 == createDIToken(8, "A", NoMetadata)
TSelf2 == createDIToken(9, "DIContainer", NoMetadata)

\* no token: the token field of an operation that takes none
NoToken == createDIToken(-1, "", NoMetadata)

Tokens == {DIContainer, TA, TB, TC, TBase}

----------------------------------------------------------------------------
(* Values *)

Null == [kind |-> "null"]
Undefined == [kind |-> "undefined"]
\* an object literal created by the caller; n is its identity
Plain(n) == [kind |-> "object", id |-> n]
\* the object a factory function returns: a fresh identity, the function that
\* built it and the values it was built from
Instance(n, fn, parts) == [kind |-> "instance", id |-> n, fn |-> fn, parts |-> parts]
\* the container object itself, and the object scopedResolve builds for the
\* Self Token
ContainerRef(c) == [kind |-> "container", c |-> c]
ScopedView(s) == [kind |-> "scopedContainer", s |-> s]
ArrayOf(items) == [kind |-> "array", items |-> items]

IsNullish(v) == v.kind \in {"null", "undefined"}

\* a factory function as written by the caller, and the closure
\* defineSingleton returns for it (cell: its `instance` variable)
RawFn(f) == [wrapped |-> FALSE, fn |-> f, cell |-> 0]
SingletonFn(f, cell) == [wrapped |-> TRUE, fn |-> f, cell |-> cell]

\* DIFactory: {dependencies, factory}
DIFactory(deps, f) == [kind |-> "factory", dependencies |-> deps, factory |-> RawFn(f)]

\* an object {dependencies} without a `factory` property: reading the property
\* gives undefined
NoFactory(deps) == DIFactory(deps, "undefined")

\* how a createScope callback ends: it returns a value that is not a promise,
\* throws, or returns a promise that is fulfilled or rejected
Returned(v) == [how |-> "return", val |-> v]
Threw(e) == [how |-> "throw", err |-> e]
ReturnedFulfilled(v) == [how |-> "fulfilled", val |-> v]
ReturnedRejected(e) == [how |-> "rejected", err |-> e]

\* the states of a promise
Pending == [state |-> "pending"]
Fulfilled(v) == [state |-> "fulfilled", val |-> v]
Rejected(e) == [state |-> "rejected", err |-> e]

\* the optional generics argument of findImplementationTokens
NoGenerics == [given |-> FALSE, tokens |-> <<>>]

Generics(tokens) == [given |-> TRUE, tokens |-> tokens]

\* outcomes of a call
Ok(v) == [ok |-> TRUE, val |-> v]
Throw(err, key) == [ok |-> FALSE, err |-> err, key |-> key]
NotFound(key) == Throw("Could not Resolve: Token not found", key)
TypeError == Throw("TypeError", "")
RangeError == Throw("RangeError: Maximum call stack size exceeded", "")
ReservedTokenError == Throw("DIContainer cannot be registered", "")
InvalidFactoryError == Throw("Factory must be an object", "")
\* an error thrown by a factory function
FactoryError == Throw("factory failed", "")

----------------------------------------------------------------------------
(* Objects as maps from property names to values *)

EmptyObject == [k \in {} |-> Null]

\* key in obj
In(key, obj) == key \in DOMAIN obj

\* obj[key] = v
Set(obj, key, v) == [k \in DOMAIN obj \cup {key} |-> IF k = key THEN v ELSE obj[k]]

EmptyState == [values |-> EmptyObject,
               implementations |-> EmptyObject,
               references |-> EmptyObject]

\* {...a, ...b}: the properties of a, then those of b over them
Spread(a, b) == [k \in DOMAIN a \cup DOMAIN b |-> IF k \in DOMAIN b THEN b[k] ELSE a[k]]

----------------------------------------------------------------------------
(* Builder: register and registerFactory *)

RECURSIVE PushAllFront(_, _, _, _)
\* faulty variant of PushAll: the token is put at the front of the list
PushAllFront(index, listed, i, token) ==
    IF i > Len(listed) THEN index
    ELSE LET k == listed[i].key
             next == IF ~In(k, index) THEN Set(index, k, <<token>>)
                     ELSE Set(index, k, <<token>> \o index[k])
         IN PushAllFront(next, listed, i + 1, token)

RECURSIVE PushAll(_, _, _, _)
\* metadata?.implements?.forEach(...) and metadata?.generics?.forEach(...):
\* for each listed token, index[key] = [token] when the key has no list yet,
\* else index[key].push(token)
PushAll(index, listed, i, token) ==
    IF i > Len(listed) THEN index
    ELSE LET k == listed[i].key
             next == IF ~In(k, index) THEN Set(index, k, <<token>>)
                     ELSE Set(index, k, Append(index[k], token))
         IN PushAll(next, listed, i + 1, token)

\* faulty variant of Produce: an entry, once written, is never replaced
ProduceKeepFirst(state, token, entry) ==
    [values |-> IF In(token.key, state.values) THEN state.values
                ELSE Set(state.values, token.key, entry),
     implementations |->
         PushAll(state.implementations, token.metadata.implements, 1, token),
     references |->
         PushAll(state.references, token.metadata.generics, 1, token)]

\* the recipe passed to produce(containerState, ...) by register and by
\* registerFactory: the entry, then the two metadata indexes
Produce(state, token, entry) ==
    [values |-> Set(state.values, token.key, entry),
     implementations |->
         PushAll(state.implementations, token.metadata.implements, 1, token),
     references |->
         PushAll(state.references, token.metadata.generics, 1, token)]

\* faulty variant of register: the Self Token is not refused
registerUnchecked(state, token, value) == Ok(Produce(state, token, value))

\* register(token, value) on the builder over `state`
register(state, token, value) ==
    IF token = DIContainer THEN ReservedTokenError
    ELSE Ok(Produce(state, token, value))

\* typeof value
TypeOf(value) ==
    IF value.kind \in {"string", "undefined"} THEN value.kind ELSE "object"

\* faulty variant of registerFactory: the dependencies must be registered
registerFactoryChecked(state, token, value, scope, ncells) ==
    IF TypeOf(value) # "object" THEN InvalidFactoryError
    ELSE IF token = DIContainer THEN ReservedTokenError
    ELSE IF \E i \in 1..Len(value.dependencies) :
                /\ value.dependencies[i] # DIContainer
                /\ ~In(value.dependencies[i].key, state.values)
    THEN NotFound(value.dependencies[
                      CHOOSE i \in 1..Len(value.dependencies) :
                          /\ value.dependencies[i] # DIContainer
                          /\ ~In(value.dependencies[i].key, state.values)].key)
    ELSE Ok(Produce(state, token,
                    [kind |-> value.kind, dependencies |-> value.dependencies,
                     factory |-> value.factory, scope |-> scope]))

\* faulty variant of registerFactory: every factory that is not "scoped" is
\* wrapped by defineSingleton
registerFactorySingletons(state, token, value, scope, ncells) ==
    IF TypeOf(value) # "object" THEN InvalidFactoryError
    ELSE IF token = DIContainer THEN ReservedTokenError
    ELSE Ok(Produce(state, token,
                    [kind |-> value.kind, dependencies |-> value.dependencies,
                     factory |-> IF scope # "scoped"
                                 THEN SingletonFn(value.factory.fn, ncells + 1)
                                 ELSE value.factory,
                     scope |-> scope]))

\* registerFactory(token, value, scope) on the builder over `state`;
\* ncells is the number of defineSingleton closures created so far, so the
\* closure created here owns cell ncells + 1
\* typeof null is "object": with scope "singleton" reading value.factory
\* throws, otherwise {...null, scope} is stored as the entry
registerFactory(state, token, value, scope, ncells) ==
    IF TypeOf(value) # "object" THEN InvalidFactoryError
    ELSE IF token = DIContainer THEN ReservedTokenError
    ELSE IF value = Null
    THEN IF scope = "singleton" THEN TypeError
         ELSE Ok(Produce(state, token, [kind |-> "object", scope |-> scope]))
    ELSE LET val == IF scope = "singleton"
                    THEN [value EXCEPT !.factory = SingletonFn(value.factory.fn, ncells + 1)]
                    ELSE value
         IN Ok(Produce(state, token,
                       [kind |-> val.kind, dependencies |-> val.dependencies,
                        factory |-> val.factory, scope |-> scope]))

\* faulty variant of merge: the entries stay those of the receiver, the
\* indexes are taken from the merged state
mergeIndexesOnly(state, stateToMerge) ==
    [values |-> state.values,
     implementations |-> stateToMerge.implementations,
     references |-> stateToMerge.references]

\* faulty variant of merge: the receiver's properties win
mergeKeepReceiver(state, stateToMerge) == Spread(stateToMerge, state)

\* merge(stateToMerge) on the builder over `state`
merge(state, stateToMerge) == Spread(state, stateToMerge)

----------------------------------------------------------------------------
(* Inputs of the builder operations *)

\* scope argument of registerFactory; "undefined" when it is omitted
Scopes == {"undefined", "transient", "singleton", "scoped"}

PlainInputs ==
    {<<TA, Null>>, <<TA, Undefined>>, <<TA, Plain(1)>>, <<DIContainer, Plain(1)>>}

FactoryInputs ==
    {<<TA, DIFactory(<<>>, "newA"), "undefined">>}
    \cup {<<TB, DIFactory(<<TA>>, "newB"), s>> : s \in Scopes}
    \cup {<<TC, DIFactory(<<TB>>, "newC"), s>> : s \in {"undefined", "singleton"}}
    \cup {<<TC, DIFactory(<<TA, TB>>, "newC2"), "undefined">>,
          <<TC, DIFactory(<<DIContainer>>, "useA"), "undefined">>,
          <<DIContainer, DIFactory(<<>>, "newA"), "undefined">>,
          <<DIContainer, Undefined, "undefined">>}

ResolveInputs == {DIContainer, TA, TB, TC}

ArrayInputs == {<<TB, TB>>, <<TC, TB>>}

\* inputs of the exploration of scopes: TB is built without dependencies, TC
\* and TD are both built from TB
ScopeFactoryInputs ==
    {<<TB, DIFactory(<<>>, "newB"), s>> : s \in {"scoped", "transient"}}
    \cup {<<TC, DIFactory(<<TB>>, "newC"), s>> : s \in {"undefined", "scoped"}}
    \cup {<<TD, DIFactory(<<TB>>, "newD"), "undefined">>}

ScopeResolveInputs == {TB, TC, TD}

ScopeArrayInputs == {<<TC, TD>>}

\* inputs of the exploration of merge
MergePlainInputs == {<<TA, Plain(1)>>, <<TA, Plain(2)>>, <<TD, Plain(2)>>}

MergeFactoryInputs == {<<TB, DIFactory(<<TA>>, "newB"), "undefined">>}

\* the chain of the builder has been finalized as it stands
Finalized ==
    \E c \in 1..Len(containers) : containers[c] = builder /\ finalized[c] = written

MergeResolveInputs == {TA, TB, TD}

\* registrations of tokens with and without metadata, and factory payloads
\* that are not descriptors
IndexPlainInputs == {<<TB, Plain(1)>>, <<TA, Plain(1)>>}

IndexFactoryInputs ==
    {<<TD, DIFactory(<<>>, "newD"), "undefined">>,
     <<TA, Undefined, "undefined">>,
     <<TA, Null, "undefined">>,
     <<TA, Null, "singleton">>,
     <<TA, NoFactory(<<>>), "undefined">>}

IndexBases == {TBase, TGen}

\* factories that depend on each other or on themselves, a factory that
\* depends on them, and a registration that breaks the cycle
CycleFactoryInputs ==
    {<<TA, DIFactory(<<TB>>, "newA"), s>> : s \in Scopes}
    \cup {<<TB, DIFactory(<<TA>>, "newB"), s>> : s \in Scopes}
    \cup {<<TC, DIFactory(<<TB>>, "newC"), "undefined">>,
          <<TC, DIFactory(<<TC>>, "newC"), "scoped">>,
          <<TA, DIFactory(<<>>, "newA"), "undefined">>}

CycleResolveInputs == {TA, TB, TC}

\* registrations under tokens that share their key with another token
KeysPlainInputs ==
    {<<TA, Plain(1)>>, <<TA2, Plain(2)>>, <<TSelf2, Plain(1)>>, <<DIContainer, Plain(1)>>}

KeysFactoryInputs ==
    {<<TA2, DIFactory(<<>>, "newA"), "undefined">>,
     <<TSelf2, DIFactory(<<>>, "newA"), "undefined">>}

KeysResolveInputs == {TA, TA2, TSelf2, DIContainer}

\* factories of every scope, resolved in containers finalized from the same
\* chain
SharedFactoryInputs ==
    {<<TA, DIFactory(<<>>, "newA"), s>> : s \in {"undefined", "singleton"}}
    \cup {<<TB, DIFactory(<<TA>>, "newB"), s>> : s \in {"singleton", "scoped"}}

SharedResolveInputs == {TA, TB}

\* factories resolved by createScope callbacks
CallbackFactoryInputs ==
    {<<TA, DIFactory(<<>>, "newA"), "undefined">>,
     <<TB, DIFactory(<<TA>>, "newB"), "scoped">>}

CallbackResolveInputs == {TA, TB}

IndexGenerics ==
    {NoGenerics, Generics(<<TGen>>), Generics(<<TProd>>), Generics(<<TGen, TProd>>)}

IndexResolveInputs == {TA, TD}

----------------------------------------------------------------------------
(* Resolution.  resolve and scopedResolve are recursive functions; the     *)
(* model runs them on an explicit call stack, one frame per call of        *)
(* resolve, scopedResolve or resolveArray.  The memory m holds what the    *)
(* calls can change: heap, cells (the defineSingleton closures), scopes    *)
(* (the instances cache of every createScope call) and trace (the factory  *)
(* functions invoked, in order).  A throw unwinds the whole stack (the     *)
(* code catches nothing) and keeps the effects made before it.             *)

Memory(h, cs, ss) == [heap |-> h, cells |-> cs, scopes |-> ss, trace |-> <<>>]

\* one invocation of a factory function written by the caller
Invocation(key, fn, args) == [key |-> key, fn |-> fn, args |-> args]

\* via.s = 0: a call of diContainer.resolve of container via.c; otherwise a
\* call of the scopedResolve of scope via.s
Frame(kind, via, token, tokens, stage) ==
    [kind |-> kind, via |-> via, token |-> token, tokens |-> tokens,
     stage |-> stage, i |-> 1, acc |-> <<>>, id |-> 0, val |-> Null]

Top(cfg) == cfg.stack[Len(cfg.stack)]

SetTop(cfg, f) == [cfg EXCEPT !.stack[Len(cfg.stack)] = f]

\* the entry of containerState.values the top frame is about
Entry(cfg) == containers[Top(cfg).via.c].values[Top(cfg).token.key]

\* faulty variant of Throws: a scopedResolve that fails leaves undefined in
\* the instances of its scope for the token the callback asked for
ThrowsCachesUndefined(cfg, err) ==
    LET f == cfg.stack[1]
    IN [stack |-> <<>>,
        m |-> IF f.via.s # 0 /\ f.token # NoToken
              THEN [cfg.m EXCEPT !.scopes[f.via.s].instances =
                                     Set(@, f.token.key, Undefined)]
              ELSE cfg.m,
        res |-> err]

\* throw err
Throws(cfg, err) == [stack |-> <<>>, m |-> cfg.m, res |-> err]

\* faulty variant of Returns: the resolved dependencies are collected in
\* reverse order
ReturnsReversed(cfg, v) ==
    LET n == Len(cfg.stack)
        rest == SubSeq(cfg.stack, 1, n - 1)
    IN IF n = 1 THEN [stack |-> <<>>, m |-> cfg.m, res |-> Ok(v)]
       ELSE LET p == rest[n - 1]
                q == IF p.stage = "awaiting"
                     THEN [p EXCEPT !.stage = "dependencies", !.i = @ + 1,
                                    !.acc = <<v>> \o @]
                     ELSE [p EXCEPT !.stage = "returned", !.val = v]
            IN [cfg EXCEPT !.stack = [rest EXCEPT ![n - 1] = q]]

\* return v: to the caller of the operation, to the dependencies.map of the
\* calling frame, or into the body of the factory function that called
Returns(cfg, v) ==
    LET n == Len(cfg.stack)
        rest == SubSeq(cfg.stack, 1, n - 1)
    IN IF n = 1 THEN [stack |-> <<>>, m |-> cfg.m, res |-> Ok(v)]
       ELSE LET p == rest[n - 1]
                q == IF p.stage = "awaiting"
                     THEN [p EXCEPT !.stage = "dependencies", !.i = @ + 1,
                                    !.acc = Append(@, v)]
                     ELSE [p EXCEPT !.stage = "returned", !.val = v]
            IN [cfg EXCEPT !.stack = [rest EXCEPT ![n - 1] = q]]

\* faulty variant of Calls: a token that is being resolved further down the
\* stack resolves to undefined instead of being resolved again
CallsBreakCycle(cfg, stage, via, token) ==
    LET pushed == [cfg EXCEPT !.stack =
                       Append([cfg.stack EXCEPT ![Len(cfg.stack)].stage = stage],
                              Frame("resolve", via, token, <<>>, "enter"))]
    IN IF Len(cfg.stack) >= MaxStack THEN Throws(cfg, RangeError)
       ELSE IF \E i \in 1..Len(cfg.stack) :
                   cfg.stack[i].kind = "resolve" /\ cfg.stack[i].token = token
       THEN Returns(pushed, Undefined)
       ELSE pushed

\* the top frame calls resolve or scopedResolve; the host's call stack holds
\* MaxStack frames
Calls(cfg, stage, via, token) ==
    IF Len(cfg.stack) >= MaxStack THEN Throws(cfg, RangeError)
    ELSE [cfg EXCEPT !.stack =
              Append([cfg.stack EXCEPT ![Len(cfg.stack)].stage = stage],
                     Frame("resolve", via, token, <<>>, "enter"))]

\* diContainer.getState().values[key]?.["scope"]
ScopeOf(values, key) ==
    IF In(key, values) /\ In("scope", values[key]) THEN values[key].scope
    ELSE "undefined"

\* faulty variant of CacheScoped: nothing is stored in instances
CacheScopedNever(cfg, v) == cfg

\* the end of scopedResolve: instances[key] = resolved when the registered
\* scope is "scoped"
CacheScoped(cfg, v) ==
    LET f == Top(cfg)
    IN IF ScopeOf(containers[f.via.c].values, f.token.key) = "scoped"
       THEN [cfg EXCEPT !.m.scopes[f.via.s].instances = Set(@, f.token.key, v)]
       ELSE cfg

\* faulty variant of Resolved: scopedResolve caches only the token the
\* callback asked for, not the dependencies resolved on the way
ResolvedDirectOnly(cfg, v) ==
    IF Top(cfg).via.s = 0 \/ Len(cfg.stack) > 1 THEN Returns(cfg, v)
    ELSE Returns(CacheScoped(cfg, v), v)

\* faulty variant of Resolved: resolve, too, stores the value of a scoped
\* token, in the instances of the scopes of its container
ResolvedLeaks(cfg, v) ==
    LET f == Top(cfg)
    IN IF f.via.s = 0
       THEN IF ScopeOf(containers[f.via.c].values, f.token.key) = "scoped"
            THEN Returns([cfg EXCEPT !.m.scopes =
                              [s \in 1..Len(@) |->
                                   IF @[s].c = f.via.c
                                   THEN [@[s] EXCEPT !.instances = Set(@, f.token.key, v)]
                                   ELSE @[s]]], v)
            ELSE Returns(cfg, v)
       ELSE Returns(CacheScoped(cfg, v), v)

\* the top frame has its value: resolve returns it, scopedResolve caches it
\* first
Resolved(cfg, v) ==
    IF Top(cfg).via.s = 0 THEN Returns(cfg, v)
    ELSE Returns(CacheScoped(cfg, v), v)

\* faulty variant of FactoryReturned: the closure never assigns instance
FactoryReturnedForgets(cfg, v) == Resolved(cfg, v)

\* state.factory(...) has produced v; in the closure of defineSingleton this is
\* instance ??= fn(...args), reached with instance nullish
FactoryReturned(cfg, v) ==
    LET factory == Entry(cfg).factory
    IN IF factory.wrapped
       THEN Resolved([cfg EXCEPT !.m.cells[factory.cell] = v], v)
       ELSE Resolved(cfg, v)

\* the body of a factory function.  Every invocation takes the next object
\* identity.  "useA" is (container) => ({ a: container.resolve(TA) }); every
\* "returnsNull" is () => null, "throws" is () => { throw new Error(...) };
\* every other function builds a new object from its arguments.  Calling the
\* undefined `factory` of an entry registered without one throws
Call(cfg) ==
    LET f == Top(cfg)
        fn == Entry(cfg).factory.fn
        id == cfg.m.heap + 1
        c1 == [cfg EXCEPT !.m.trace = Append(@, Invocation(f.token.key, fn, f.acc)),
                          !.m.heap = id]
    IN IF fn = "undefined" THEN Throws(cfg, TypeError)
       ELSE IF fn = "returnsNull" THEN FactoryReturned(c1, Null)
       ELSE IF fn = "throws" THEN Throws(c1, FactoryError)
       ELSE IF fn = "useA"
       THEN IF Len(f.acc) = 0 THEN Throws(c1, TypeError)
            ELSE IF f.acc[1].kind = "container"
                 THEN Calls(SetTop(c1, [f EXCEPT !.id = id]), "calling",
                            [c |-> f.acc[1].c, s |-> 0], TA)
            ELSE IF f.acc[1].kind = "scopedContainer"
                 THEN Calls(SetTop(c1, [f EXCEPT !.id = id]), "calling",
                            [c |-> cfg.m.scopes[f.acc[1].s].c, s |-> f.acc[1].s], TA)
            ELSE Throws(c1, TypeError)
       ELSE FactoryReturned(c1, Instance(id, fn, f.acc))

\* state.factory(...args): the function itself, or the closure defineSingleton
\* returned for it: instance ??= fn(...args); return instance
Invoke(cfg) ==
    LET factory == Entry(cfg).factory
    IN IF factory.wrapped /\ ~IsNullish(cfg.m.cells[factory.cell])
       THEN Resolved(cfg, cfg.m.cells[factory.cell])
       ELSE Call(cfg)

\* faulty variant of MapResolve: the tokens of resolveArray are resolved from
\* the last to the first
MapResolveBackwards(cfg) ==
    LET f == Top(cfg)
        tokens == IF f.kind = "array" THEN f.tokens ELSE Entry(cfg).dependencies
        n == Len(f.acc)
    IN IF f.i <= Len(tokens)
       THEN Calls(cfg, "awaiting", f.via,
                  tokens[IF f.kind = "array" THEN Len(tokens) + 1 - f.i ELSE f.i])
       ELSE IF f.kind = "array"
       THEN Returns(cfg, ArrayOf([j \in 1..n |-> f.acc[n + 1 - j]]))
       ELSE Invoke(cfg)

\* dependencies.map((dep) => resolve(dep)) and tokens.map(resolve), one
\* element at a time, in order; then the factory call, or the array
MapResolve(cfg) ==
    LET f == Top(cfg)
        tokens == IF f.kind = "array" THEN f.tokens ELSE Entry(cfg).dependencies
    IN IF f.i <= Len(tokens) THEN Calls(cfg, "awaiting", f.via, tokens[f.i])
       ELSE IF f.kind = "array" THEN Returns(cfg, ArrayOf(f.acc))
       ELSE Invoke(cfg)

\* (state as DIFactory).dependencies is truthy
HasDependencies(state) == state.kind = "factory"

\* faulty variant of resolve: a key without an entry reads as undefined
resolveMissingUndefined(cfg) ==
    LET f == Top(cfg)
        key == f.token.key
        values == containers[f.via.c].values
    IN IF f.token = DIContainer THEN Returns(cfg, ContainerRef(f.via.c))
       ELSE IF ~In(key, values) THEN Returns(cfg, Undefined)
       ELSE IF IsNullish(values[key]) THEN Throws(cfg, TypeError)
       ELSE IF ~HasDependencies(values[key]) THEN Returns(cfg, values[key])
       ELSE SetTop(cfg, [f EXCEPT !.stage = "dependencies"])

\* faulty variant of resolve: the Self Token is looked up like any other token
resolveSelfAsKey(cfg) ==
    LET f == Top(cfg)
        key == f.token.key
        values == containers[f.via.c].values
    IN IF ~In(key, values) THEN Throws(cfg, NotFound(key))
       ELSE IF IsNullish(values[key]) THEN Throws(cfg, TypeError)
       ELSE IF ~HasDependencies(values[key]) THEN Returns(cfg, values[key])
       ELSE SetTop(cfg, [f EXCEPT !.stage = "dependencies"])

\* diContainer.resolve(toResolve), up to the resolution of the dependencies
resolve(cfg) ==
    LET f == Top(cfg)
        key == f.token.key
        values == containers[f.via.c].values
    IN IF f.token = DIContainer THEN Returns(cfg, ContainerRef(f.via.c))
       ELSE IF ~In(key, values) THEN Throws(cfg, NotFound(key))
       ELSE IF IsNullish(values[key]) THEN Throws(cfg, TypeError)
       ELSE IF ~HasDependencies(values[key]) THEN Returns(cfg, values[key])
       ELSE SetTop(cfg, [f EXCEPT !.stage = "dependencies"])

\* faulty variant of scopedResolve: one instances cache for the container,
\* shared by its createScope calls
scopedResolveSharedCache(cfg) ==
    LET f == Top(cfg)
        key == f.token.key
        values == containers[f.via.c].values
        instances == cfg.m.scopes[1].instances
    IN IF f.token = DIContainer THEN Returns(cfg, ScopedView(f.via.s))
       ELSE IF In(key, instances) THEN Returns(cfg, instances[key])
       ELSE IF ~In(key, values) THEN Throws(cfg, NotFound(key))
       ELSE IF IsNullish(values[key]) THEN Throws(cfg, TypeError)
       ELSE IF ~HasDependencies(values[key]) THEN Resolved(cfg, values[key])
       ELSE SetTop(cfg, [f EXCEPT !.stage = "dependencies"])

\* faulty variant of scopedResolve: the Self Token resolves to the container
\* itself, not to a view that resolves in the scope
scopedResolveSelfOuter(cfg) ==
    LET f == Top(cfg)
        key == f.token.key
        values == containers[f.via.c].values
        instances == cfg.m.scopes[f.via.s].instances
    IN IF f.token = DIContainer THEN Returns(cfg, ContainerRef(f.via.c))
       ELSE IF In(key, instances) THEN Returns(cfg, instances[key])
       ELSE IF ~In(key, values) THEN Throws(cfg, NotFound(key))
       ELSE IF IsNullish(values[key]) THEN Throws(cfg, TypeError)
       ELSE IF ~HasDependencies(values[key]) THEN Resolved(cfg, values[key])
       ELSE SetTop(cfg, [f EXCEPT !.stage = "dependencies"])

\* scopedResolve(token) of a createScope call, up to the resolution of the
\* dependencies
scopedResolve(cfg) ==
    LET f == Top(cfg)
        key == f.token.key
        values == containers[f.via.c].values
        instances == cfg.m.scopes[f.via.s].instances
    IN IF f.token = DIContainer THEN Returns(cfg, ScopedView(f.via.s))
       ELSE IF In(key, instances) THEN Returns(cfg, instances[key])
       ELSE IF ~In(key, values) THEN Throws(cfg, NotFound(key))
       ELSE IF IsNullish(values[key]) THEN Throws(cfg, TypeError)
       ELSE IF ~HasDependencies(values[key]) THEN Resolved(cfg, values[key])
       ELSE SetTop(cfg, [f EXCEPT !.stage = "dependencies"])

\* one step of the frame on top of the stack
Step(cfg) ==
    LET f == Top(cfg)
    IN IF f.stage = "enter"
       THEN IF f.via.s = 0 THEN resolve(cfg) ELSE scopedResolve(cfg)
       ELSE IF f.stage = "dependencies" THEN MapResolve(cfg)
       ELSE FactoryReturned(cfg, Instance(f.id, Entry(cfg).factory.fn, <<f.val>>))

RECURSIVE Run(_)
\* run the call on the stack to its return or throw, one step at a time (each
\* step is taken once: next is its value)
Run(cfg) ==
    IF cfg.stack = <<>> THEN cfg
    ELSE CHOOSE end \in {Run(next) : next \in {Step(cfg)}} : TRUE

\* container.resolve(token) and scopedContainer.resolve(token)
CallResolve(via, token, m) ==
    Run([stack |-> <<Frame("resolve", via, token, <<>>, "enter")>>, m |-> m,
         res |-> Ok(Null)])

\* resolveArray(tokens): tokens.map((token) => diContainer.resolve(token)), and
\* in a scope tokens.map(scopedResolve)
CallResolveArray(via, tokens, m) ==
    Run([stack |-> <<Frame("array", via, NoToken, tokens, "dependencies")>>, m |-> m,
         res |-> Ok(Null)])

\* faulty variant of createScope: a failure of the callback is swallowed
createScopeSwallows(completion) ==
    IF completion.how \in {"return", "fulfilled"} THEN Fulfilled(completion.val)
    ELSE Fulfilled(Undefined)

\* async createScope(callback) { ... return await callback(scopedContainer) }:
\* the promise of the async function once the callback has ended.  A throw
\* inside an async function rejects its promise; await of a promise takes
\* its outcome, await of another value takes the value
createScope(completion) ==
    IF completion.how = "return" THEN Fulfilled(completion.val)
    ELSE IF completion.how = "throw" THEN Rejected(completion.err)
    ELSE IF completion.how = "fulfilled" THEN Fulfilled(completion.val)
    ELSE Rejected(completion.err)

\* the callback has reached an await and is suspended there
Awaiting == [how |-> "await"]

\* the scope a createScope call on container c opens: const instances = {}
NewScope(c) ==
    [c |-> c, instances |-> EmptyObject, calls |-> EmptyObject,
     got |-> EmptyObject, callback |-> Pending, promise |-> Pending]

\* faulty variant of createScopeCall: the callback is not started before
\* createScope returns its promise
createScopeCallDeferred(c, tokens, m) ==
    [stack |-> <<>>,
     m |-> [m EXCEPT !.scopes = Append(@, NewScope(c))],
     res |-> Ok(ArrayOf(<<>>))]

\* createScope(callback) up to the return of its promise: the body of the
\* async function runs at once, callback(scopedResolve(DIContainer)) is
\* called before the await, and the callback makes the scoped resolves of
\* its synchronous prefix, `tokens`, one after the other; a throw of one of
\* them ends the callback
createScopeCall(c, tokens, m) ==
    CallResolveArray([c |-> c, s |-> Len(m.scopes) + 1], tokens,
                     [m EXCEPT !.scopes = Append(@, NewScope(c))])

----------------------------------------------------------------------------
(* findImplementationTokens *)

\* list.includes(token)
Includes(list, token) == \E i \in 1..Len(list) : list[i] = token

\* the predicate of implementations.filter(...)
Matches(state, token, generics) ==
    IF ~token.metadata.has THEN FALSE
    ELSE IF ~generics.given THEN TRUE
    ELSE \A i \in 1..Len(generics.tokens) :
             IF In(generics.tokens[i].key, state.references)
             THEN Includes(state.references[generics.tokens[i].key], generics.tokens[i])
             ELSE FALSE

\* findImplementationTokens(baseToken, generics) of the container over `state`
findImplementationTokens(state, baseToken, generics) ==
    IF ~In(baseToken.key, state.implementations) THEN <<>>
    ELSE SelectSeq(state.implementations[baseToken.key],
                   LAMBDA token : Matches(state, token, generics))

----------------------------------------------------------------------------
(* The strict builder: buildStrictDIContainer                              *)
(* Its tokens are the symbols Symbol.for(key), one per key, and its state  *)
(* is one object from symbol to entry: a token is written here as its key. *)

AlreadyRegistered(key) == Throw("Token already registered", key)
DependencyNotRegistered(key) == Throw("Dependency not registered", key)

\* a factory descriptor { token, dependencies, factory }
StrictFactory(token, deps, f) ==
    [kind |-> "factory", token |-> token, dependencies |-> deps,
     factory |-> RawFn(f)]

\* replace(token, value) on the strict builder over `state`
replace(state, token, value) == Ok(Set(state, token.key, value))

\* faulty variant of strictRegister: an entry of the token is overwritten
strictRegisterOverwrites(state, token, value) == replace(state, token, value)

\* register(token, value) on the strict builder over `state`
strictRegister(state, token, value) ==
    IF In(token.key, state) THEN AlreadyRegistered(token.key)
    ELSE replace(state, token, value)

\* replaceFactory(value) on the strict builder over `state`; draft[value.token]
\* of null is a TypeError
replaceFactory(state, value) ==
    IF TypeOf(value) # "object" THEN InvalidFactoryError
    ELSE IF IsNullish(value) THEN TypeError
    ELSE Ok(Set(state, value.token.key, value))

\* registerFactory(value) on the strict builder over `state`
strictRegisterFactory(state, value) ==
    IF TypeOf(value) # "object" \/ IsNullish(value) THEN InvalidFactoryError
    ELSE IF In(value.token.key, state) THEN AlreadyRegistered(value.token.key)
    ELSE IF \E i \in 1..Len(value.dependencies) :
                ~In(value.dependencies[i].key, state)
    THEN LET first == CHOOSE i \in 1..Len(value.dependencies) :
                          /\ ~In(value.dependencies[i].key, state)
                          /\ \A j \in 1..(i - 1) :
                                 In(value.dependencies[j].key, state)
         IN DependencyNotRegistered(value.dependencies[first].key)
    ELSE replaceFactory(state, value)

RECURSIVE replaceFactoryArray(_, _, _)
\* replaceFactoryArray(values): values.forEach(value => draft[value.token] =
\* value), from the i-th value on
replaceFactoryArray(state, values, i) ==
    IF i > Len(values) THEN state
    ELSE replaceFactoryArray(Set(state, values[i].token.key, values[i]),
                             values, i + 1)

\* merge(stateToMerge) on the strict builder over `state`
strictMerge(state, stateToMerge) == Spread(state, stateToMerge)

\* the state a finalized strict container resolves from, as the values that
\* resolve looks tokens up in
StrictContainer(state) ==
    [values |-> state, implementations |-> EmptyObject,
     references |-> EmptyObject]

----------------------------------------------------------------------------
(* The manager: buildDIContainerManager *)

ContainerAlreadyExists(key) == Throw("Container ${key} already exists", key)
ContainerNotFound(key) == Throw("Container ${key} not found", key)
ContainerNotFoundUnnamed == Throw("Container not found", "")

\* the default containerManagerState
EmptyManagerState == [containers |-> EmptyObject, currentContainer |-> "default"]

\* an optional key argument that is left out
Omitted == "undefined"

\* key: string = "default"
OrDefault(key) == IF key = Omitted THEN "default" ELSE key

\* key ?? currentContainer
OrCurrent(state, key) == IF key = Omitted THEN state.currentContainer ELSE key

\* faulty variant of registerContainer: a registered key is registered anew
registerContainerOverwrites(state, containerState, key) ==
    Ok([containers |-> Set(state.containers, OrDefault(key), containerState),
        currentContainer |-> state.currentContainer])

\* registerContainer(container, key) on the manager builder over `state`,
\* containerState being container.getState(); containers[key] is a container
\* state, an object, when the key is there
registerContainer(state, containerState, key) ==
    IF In(OrDefault(key), state.containers)
    THEN ContainerAlreadyExists(OrDefault(key))
    ELSE Ok([containers |-> Set(state.containers, OrDefault(key), containerState),
             currentContainer |-> state.currentContainer])

\* getContainer(key) on the manager over `state`: a container over the state
\* kept under the key
getContainer(state, key) ==
    IF ~In(OrCurrent(state, key), state.containers) THEN ContainerNotFoundUnnamed
    ELSE Ok([kind |-> "container",
             state |-> state.containers[OrCurrent(state, key)]])

\* faulty variant of setDefaultContainer: the current-container key is kept
setDefaultContainerKeepsKey(state, key) ==
    IF ~In(key, state.containers) THEN ContainerNotFound(key)
    ELSE Ok([containers |-> state.containers,
             currentContainer |-> state.currentContainer])

\* setDefaultContainer(key) on the manager over `state`: the state of the
\* manager it returns
setDefaultContainer(state, key) ==
    IF ~In(key, state.containers) THEN ContainerNotFound(key)
    ELSE Ok([containers |-> state.containers, currentContainer |-> key])

----------------------------------------------------------------------------
(* History kept for the properties *)

Did(op, c, s, token, arg, res, trace, heap0) ==
    [op |-> op, c |-> c, s |-> s, token |-> token, arg |-> arg, res |-> res,
     trace |-> trace, heap0 |-> heap0]

\* the latest successful registration for token.key, and how the key was
\* registered before it ("none": it was not)
\* n counts the registrations of the key in the chain; merged tells how the
\* record reached the chain (see Merged)
Wrote(log, by, token, value, scope) ==
    Set(log, token.key,
        [by |-> by, token |-> token, value |-> value, scope |-> scope,
         prev |-> IF In(token.key, log) THEN log[token.key].by ELSE "none",
         n |-> IF In(token.key, log) THEN log[token.key].n + 1 ELSE 1,
         merged |-> "no"])

\* the registrations a chain holds after merge(stateToMerge), as the union of
\* both: those of `other`, the chain behind stateToMerge, come with the merge,
\* over an entry of the receiver's state for the key ("collision": both
\* states hold an entry) or not ("new"); the others were in the receiver
\* before the merge ("receiver")
Merged(log, other, state, stateToMerge) ==
    [k \in DOMAIN log \cup DOMAIN other |->
         IF k \in DOMAIN other
         THEN [other[k] EXCEPT !.merged =
                   IF In(k, state.values) /\ In(k, stateToMerge.values)
                   THEN "collision" ELSE "new"]
         ELSE [log[k] EXCEPT !.merged = "receiver"]]

RECURSIVE AddReturned(_, _, _, _)
\* got[key] gains the object returned for each token of a successful call
\* (the objects factories built; registered values and containers are left out)
AddReturned(got, tokens, vals, i) ==
    IF i > Len(vals) THEN got
    ELSE LET k == tokens[i].key
             old == IF In(k, got) THEN got[k] ELSE {}
         IN IF vals[i].kind # "instance" THEN AddReturned(got, tokens, vals, i + 1)
            ELSE AddReturned(Set(got, k, old \cup {vals[i]}), tokens, vals, i + 1)

RECURSIVE AddCalls(_, _, _)
\* calls[key] counts the invocations of the factory function registered for key
AddCalls(calls, trace, i) ==
    IF i > Len(trace) THEN calls
    ELSE LET k == trace[i].key
             old == IF In(k, calls) THEN calls[k] ELSE 0
         IN AddCalls(Set(calls, k, old + 1), trace, i + 1)

----------------------------------------------------------------------------
(* The state machine *)

Init ==
    /\ builder = EmptyState
    /\ nregs = 0
    /\ containers = <<>>
    /\ scopes = <<>>
    /\ cells = <<>>
    /\ heap = 0
    /\ returned = <<>>
    /\ written = EmptyObject
    /\ finalized = <<>>
    /\ last = Did("buildDIContainer", 0, 0, NoToken, Null, Ok(Null), <<>>, 0)
    /\ manager = EmptyManagerState
    /\ managers = <<>>
    /\ registered = <<>>

\* faulty variant of Register: the recipe is applied to the state object
\* itself, so the containers that return this object from getState() change
\* with the builder
RegisterInPlace(token, value) ==
    /\ LET r == register(builder, token, value)
       IN /\ builder' = IF r.ok THEN r.val ELSE builder
          /\ containers' = [c \in 1..Len(containers) |->
                                IF r.ok /\ containers[c] = builder THEN r.val
                                ELSE containers[c]]
          /\ nregs' = IF r.ok THEN nregs + 1 ELSE nregs
          /\ written' = IF r.ok THEN Wrote(written, "register", token, value, "undefined")
                        ELSE written
          /\ last' = Did("register", 0, 0, token, value,
                         IF r.ok THEN Ok(Null) ELSE r, <<>>, heap)
    /\ UNCHANGED <<manager, managers, registered, scopes, cells, heap, returned, finalized>>

\* builder = builder.register(token, value)
Register(token, value) ==
    /\ LET r == register(builder, token, value)
       IN /\ builder' = IF r.ok THEN r.val ELSE builder
          /\ nregs' = IF r.ok THEN nregs + 1 ELSE nregs
          /\ written' = IF r.ok THEN Wrote(written, "register", token, value, "undefined")
                        ELSE written
          /\ last' = Did("register", 0, 0, token, value,
                         IF r.ok THEN Ok(Null) ELSE r, <<>>, heap)
    /\ UNCHANGED <<manager, managers, registered, containers, scopes, cells, heap, returned, finalized>>

\* builder = builder.registerFactory(token, value, scope)
RegisterFactory(token, value, scope) ==
    /\ LET r == registerFactory(builder, token, value, scope, Len(cells))
       IN /\ builder' = IF r.ok THEN r.val ELSE builder
          /\ nregs' = IF r.ok THEN nregs + 1 ELSE nregs
          \* defineSingleton(value.factory): let instance (undefined)
          /\ cells' = IF /\ r.ok
                         /\ In("factory", r.val.values[token.key])
                         /\ r.val.values[token.key].factory.wrapped
                      THEN Append(cells, Undefined) ELSE cells
          /\ written' = IF r.ok THEN Wrote(written, "registerFactory", token, value, scope)
                        ELSE written
          /\ last' = Did("registerFactory", 0, 0, token, [value |-> value, scope |-> scope],
                         IF r.ok THEN Ok(Null) ELSE r, <<>>, heap)
    /\ UNCHANGED <<manager, managers, registered, containers, scopes, heap, returned, finalized>>

\* container = builder.getResult()
GetResult ==
    /\ containers' = Append(containers, builder)
    /\ returned' = Append(returned, EmptyObject)
    /\ finalized' = Append(finalized, written)
    /\ last' = Did("getResult", Len(containers) + 1, 0, NoToken, Null, Ok(Null), <<>>, heap)
    /\ UNCHANGED <<manager, managers, registered, builder, nregs, scopes, cells, heap, written>>

\* container.resolve(token)
Resolve(c, token) ==
    /\ LET r == CallResolve([c |-> c, s |-> 0], token, Memory(heap, cells, scopes))
       IN /\ heap' = r.m.heap
          /\ cells' = r.m.cells
          /\ scopes' = r.m.scopes
          /\ returned' = IF r.res.ok
                         THEN [returned EXCEPT ![c] =
                                   AddReturned(@, <<token>>, <<r.res.val>>, 1)]
                         ELSE returned
          /\ last' = Did("resolve", c, 0, token, Null, r.res, r.m.trace, heap)
    /\ UNCHANGED <<manager, managers, registered, builder, nregs, containers, written, finalized>>

\* container.resolveArray(tokens)
ResolveArray(c, tokens) ==
    /\ LET r == CallResolveArray([c |-> c, s |-> 0], tokens, Memory(heap, cells, scopes))
       IN /\ heap' = r.m.heap
          /\ cells' = r.m.cells
          /\ scopes' = r.m.scopes
          /\ returned' = IF r.res.ok
                         THEN [returned EXCEPT ![c] =
                                   AddReturned(@, tokens, r.res.val.items, 1)]
                         ELSE returned
          /\ last' = Did("resolveArray", c, 0, NoToken, tokens, r.res, r.m.trace, heap)
    /\ UNCHANGED <<manager, managers, registered, builder, nregs, containers, written, finalized>>

\* container.createScope(callback): a new instances cache; the callback then
\* runs with the scoped container
CreateScope(c) ==
    /\ scopes' = Append(scopes, [c |-> c, instances |-> EmptyObject,
                                 calls |-> EmptyObject, got |-> EmptyObject,
                                 callback |-> Pending, promise |-> Pending])
    /\ last' = Did("createScope", c, Len(scopes) + 1, NoToken, Null,
                   Ok(ScopedView(Len(scopes) + 1)), <<>>, heap)
    /\ UNCHANGED <<manager, managers, registered, builder, nregs, containers, cells, heap, returned, written, finalized>>

\* scopedContainer.resolve(token) inside the callback of scope s
ScopedResolve(s, token) ==
    /\ LET r == CallResolve([c |-> scopes[s].c, s |-> s], token, Memory(heap, cells, scopes))
       IN /\ heap' = r.m.heap
          /\ cells' = r.m.cells
          /\ scopes' = [r.m.scopes EXCEPT
                            ![s].calls = AddCalls(@, r.m.trace, 1),
                            ![s].got = IF r.res.ok
                                       THEN AddReturned(@, <<token>>, <<r.res.val>>, 1)
                                       ELSE @]
          /\ last' = Did("scopedResolve", scopes[s].c, s, token, Null, r.res,
                         r.m.trace, heap)
    /\ UNCHANGED <<manager, managers, registered, builder, nregs, containers, returned, written, finalized>>

\* scopedContainer.resolveArray(tokens) inside the callback of scope s
ScopedResolveArray(s, tokens) ==
    /\ LET r == CallResolveArray([c |-> scopes[s].c, s |-> s], tokens, Memory(heap, cells, scopes))
       IN /\ heap' = r.m.heap
          /\ cells' = r.m.cells
          /\ scopes' = [r.m.scopes EXCEPT
                            ![s].calls = AddCalls(@, r.m.trace, 1),
                            ![s].got = IF r.res.ok
                                       THEN AddReturned(@, tokens, r.res.val.items, 1)
                                       ELSE @]
          /\ last' = Did("scopedResolveArray", scopes[s].c, s, NoToken, tokens, r.res,
                         r.m.trace, heap)
    /\ UNCHANGED <<manager, managers, registered, builder, nregs, containers, returned, written, finalized>>

\* an error of the callback's own
CallbackError == Throw("callback failed", "")

\* what the callback of scope s can end with: a value or an error of its own,
\* or the outcome of the scoped resolve it has just made
Completions(s) ==
    {Returned(Plain(1)), ReturnedFulfilled(Plain(1)), Threw(CallbackError),
     ReturnedRejected(CallbackError)}
    \cup IF last.op \in {"scopedResolve", "scopedResolveArray"} /\ last.s = s
         THEN IF last.res.ok
              THEN {Returned(last.res.val), ReturnedFulfilled(last.res.val)}
              ELSE {Threw(last.res), ReturnedRejected(last.res)}
         ELSE {}

\* the callback of scope s ends and the promise of createScope settles
CallbackEnds(s, completion) ==
    /\ scopes[s].promise = Pending
    /\ scopes' = [scopes EXCEPT ![s].callback = completion,
                                ![s].promise = createScope(completion)]
    /\ last' = Did("callback", scopes[s].c, s, NoToken, completion, Ok(Null), <<>>, heap)
    /\ UNCHANGED <<manager, managers, registered, builder, nregs, containers, cells, heap, returned, written, finalized>>

\* builder = buildDIContainer(): a new chain
NewBuilder ==
    /\ builder' = EmptyState
    /\ written' = EmptyObject
    /\ last' = Did("buildDIContainer", 0, 0, NoToken, Null, Ok(Null), <<>>, heap)
    /\ UNCHANGED <<manager, managers, registered, nregs, containers, scopes, cells, heap, returned, finalized>>

\* builder = builder.merge(container.getState())
Merge(c) ==
    /\ builder' = merge(builder, containers[c])
    /\ written' = Merged(written, finalized[c], builder, containers[c])
    /\ nregs' = nregs + 1
    /\ last' = Did("merge", c, 0, NoToken, Null, Ok(Null), <<>>, heap)
    /\ UNCHANGED <<manager, managers, registered, containers, scopes, cells, heap, returned, finalized>>

\* container.findImplementationTokens(baseToken, generics)
Find(c, baseToken, generics) ==
    /\ last' = Did("findImplementationTokens", c, 0, baseToken, generics,
                   Ok(ArrayOf(findImplementationTokens(containers[c], baseToken, generics))),
                   <<>>, heap)
    /\ UNCHANGED <<manager, managers, registered, builder, nregs, containers, scopes, cells, heap, returned,
                   written, finalized>>

\* the chain buildDIContainer().register(...)....getResult() and then the uses
\* of the container: the registrations of the chain precede its getResult.
\* The bounds stop the exploration: MaxRegs registrations, MaxContainers
\* containers, MaxScopes scopes, no new call once MaxHeap factory functions
\* have run
Next ==
    \/ /\ containers = <<>> /\ nregs < MaxRegs
       /\ \E in \in PlainInputs : Register(in[1], in[2])
    \/ /\ containers = <<>> /\ nregs < MaxRegs
       /\ \E in \in FactoryInputs : RegisterFactory(in[1], in[2], in[3])
    \/ Len(containers) < MaxContainers /\ GetResult
    \/ /\ heap < MaxHeap
       /\ \E c \in 1..Len(containers), t \in ResolveInputs : Resolve(c, t)
    \/ /\ heap < MaxHeap
       /\ \E c \in 1..Len(containers), ts \in ArrayInputs : ResolveArray(c, ts)
    \/ /\ Len(scopes) < MaxScopes
       /\ \E c \in 1..Len(containers) : CreateScope(c)
    \/ /\ heap < MaxHeap
       /\ \E s \in 1..Len(scopes), t \in ResolveInputs : ScopedResolve(s, t)
    \/ /\ heap < MaxHeap
       /\ \E s \in 1..Len(scopes), ts \in ArrayInputs : ScopedResolveArray(s, ts)

Spec == Init /\ [][Next]_vars

\* a chain of registerFactory calls, its getResult, and then createScope
\* calls on the container whose callbacks run interleaved, next to resolve
\* calls on the container itself
NextScopes ==
    \/ /\ containers = <<>> /\ nregs < MaxRegs
       /\ \E in \in ScopeFactoryInputs : RegisterFactory(in[1], in[2], in[3])
    \/ Len(containers) < MaxContainers /\ GetResult
    \/ /\ Len(scopes) < ScopesMaxScopes
       /\ \E c \in 1..Len(containers) : CreateScope(c)
    \/ /\ \E c \in 1..Len(containers) : Resolve(c, TB)
       /\ heap' <= ScopesMaxHeap
    \/ /\ \E s \in 1..Len(scopes), t \in ScopeResolveInputs : ScopedResolve(s, t)
       /\ heap' <= ScopesMaxHeap
    \/ /\ \E s \in 1..Len(scopes), ts \in ScopeArrayInputs : ScopedResolveArray(s, ts)
       /\ heap' <= ScopesMaxHeap

SpecScopes == Init /\ [][NextScopes]_vars

\* chains of register, registerFactory and merge calls, each started by
\* buildDIContainer(); merge takes the getState() of a finalized container.
\* A chain is finalized at any point (once per state), and a new chain starts
\* after a getResult
NextMerge ==
    \/ /\ nregs < MergeMaxRegs
       /\ \E in \in MergePlainInputs : Register(in[1], in[2])
    \/ /\ nregs < MergeMaxRegs
       /\ \E in \in MergeFactoryInputs : RegisterFactory(in[1], in[2], in[3])
    \/ /\ nregs < MergeMaxRegs
       /\ \E c \in 1..Len(containers) : Merge(c)
    \/ builder # EmptyState /\ Finalized /\ NewBuilder
    \/ Len(containers) < MergeMaxContainers /\ ~Finalized /\ GetResult
    \/ /\ \E c \in 1..Len(containers), t \in MergeResolveInputs : Resolve(c, t)
       /\ heap' <= MergeMaxHeap
    \/ \E c \in 1..Len(containers) : Find(c, TBase, NoGenerics)

SpecMerge == Init /\ [][NextMerge]_vars

\* one chain of registrations of tokens that carry metadata and of factory
\* payloads, its container, and the queries of the container
NextIndex ==
    \/ /\ containers = <<>> /\ nregs < IndexMaxRegs
       /\ \E in \in IndexPlainInputs : Register(in[1], in[2])
    \/ /\ containers = <<>> /\ nregs < IndexMaxRegs
       /\ \E in \in IndexFactoryInputs : RegisterFactory(in[1], in[2], in[3])
    \/ Len(containers) < IndexMaxContainers /\ GetResult
    \/ \E c \in 1..Len(containers), base \in IndexBases, generics \in IndexGenerics :
           Find(c, base, generics)
    \/ /\ \E c \in 1..Len(containers), t \in IndexResolveInputs : Resolve(c, t)
       /\ heap' <= IndexMaxHeap

SpecIndex == Init /\ [][NextIndex]_vars

\* a chain of registerFactory calls, its container, and createScope calls
\* whose callbacks make scoped resolves and then end
NextCallback ==
    \/ /\ containers = <<>> /\ nregs < CallbackMaxRegs
       /\ \E in \in CallbackFactoryInputs : RegisterFactory(in[1], in[2], in[3])
    \/ Len(containers) < CallbackMaxContainers /\ GetResult
    \/ /\ Len(scopes) < CallbackMaxScopes
       /\ \E c \in 1..Len(containers) : CreateScope(c)
    \/ /\ \E s \in 1..Len(scopes), t \in CallbackResolveInputs :
              scopes[s].promise = Pending /\ ScopedResolve(s, t)
       /\ heap' <= CallbackMaxHeap
    \/ \E s \in 1..Len(scopes) : \E completion \in Completions(s) :
           CallbackEnds(s, completion)

SpecCallback == Init /\ [][NextCallback]_vars

\* one chain of registerFactory calls finalized at several points, and
\* resolves on the containers and in a scope
NextShared ==
    \/ /\ nregs < SharedMaxRegs
       /\ \E in \in SharedFactoryInputs : RegisterFactory(in[1], in[2], in[3])
    \/ Len(containers) < SharedMaxContainers /\ GetResult
    \/ /\ Len(scopes) < SharedMaxScopes
       /\ \E c \in 1..Len(containers) : CreateScope(c)
    \/ /\ \E c \in 1..Len(containers), t \in SharedResolveInputs : Resolve(c, t)
       /\ heap' <= SharedMaxHeap
    \/ /\ \E s \in 1..Len(scopes), t \in SharedResolveInputs : ScopedResolve(s, t)
       /\ heap' <= SharedMaxHeap

SpecShared == Init /\ [][NextShared]_vars

\* a chain of registrations under tokens with equal keys, its container, and
\* resolves
NextKeys ==
    \/ /\ containers = <<>> /\ nregs < KeysMaxRegs
       /\ \E in \in KeysPlainInputs : Register(in[1], in[2])
    \/ /\ containers = <<>> /\ nregs < KeysMaxRegs
       /\ \E in \in KeysFactoryInputs : RegisterFactory(in[1], in[2], in[3])
    \/ Len(containers) < KeysMaxContainers /\ GetResult
    \/ /\ \E c \in 1..Len(containers), t \in KeysResolveInputs : Resolve(c, t)
       /\ heap' <= KeysMaxHeap

SpecKeys == Init /\ [][NextKeys]_vars

\* a chain of registerFactory calls whose dependencies may form a cycle, its
\* container, and resolves on the container and in a scope
NextCycle ==
    \/ /\ containers = <<>> /\ nregs < CycleMaxRegs
       /\ \E in \in CycleFactoryInputs : RegisterFactory(in[1], in[2], in[3])
    \/ Len(containers) < CycleMaxContainers /\ GetResult
    \/ /\ Len(scopes) < CycleMaxScopes
       /\ \E c \in 1..Len(containers) : CreateScope(c)
    \/ /\ \E c \in 1..Len(containers), t \in CycleResolveInputs : Resolve(c, t)
       /\ heap' <= CycleMaxHeap
    \/ /\ \E s \in 1..Len(scopes), t \in CycleResolveInputs : ScopedResolve(s, t)
       /\ heap' <= CycleMaxHeap

SpecCycle == Init /\ [][NextCycle]_vars

----------------------------------------------------------------------------
(* The strict builder as a state machine: `builder` is its flat state *)

StrictFB == StrictFactory(TB, <<TA>>, "newB")
StrictFC == StrictFactory(TC, <<TB>>, "newC")

StrictPlainInputs == {<<TA, Plain(1)>>, <<TA, Plain(2)>>}

StrictFactoryInputs == {StrictFB, StrictFC, Null}

StrictArrayInputs == {<<StrictFC, StrictFB>>}

StrictResolveInputs == {TA, TB, TC}

RECURSIVE WroteArray(_, _, _, _)
\* the registrations made by replaceFactoryArray(values), from the i-th on
WroteArray(log, by, values, i) ==
    IF i > Len(values) THEN log
    ELSE WroteArray(Wrote(log, by, values[i].token, values[i], "undefined"),
                    by, values, i + 1)

InitStrict ==
    /\ builder = EmptyObject
    /\ nregs = 0
    /\ containers = <<>>
    /\ scopes = <<>>
    /\ cells = <<>>
    /\ heap = 0
    /\ returned = <<>>
    /\ written = EmptyObject
    /\ finalized = <<>>
    /\ last = Did("buildStrictDIContainer", 0, 0, NoToken, Null, Ok(Null), <<>>, 0)
    /\ manager = EmptyManagerState
    /\ managers = <<>>
    /\ registered = <<>>

\* the step of the chain that a call on the strict builder makes: the builder
\* it returned, r, or the same builder when it threw
StrictStep(op, token, value, r) ==
    /\ builder' = IF r.ok THEN r.val ELSE builder
    /\ nregs' = IF r.ok THEN nregs + 1 ELSE nregs
    /\ written' = IF r.ok THEN Wrote(written, op, token, value, "undefined")
                  ELSE written
    /\ last' = Did(op, 0, 0, token, value, IF r.ok THEN Ok(Null) ELSE r, <<>>, heap)
    /\ UNCHANGED <<manager, managers, registered, containers, scopes, cells,
                   heap, returned, finalized>>

\* builder = builder.register(token, value)
StrictRegister(token, value) ==
    StrictStep("register", token, value, strictRegister(builder, token, value))

\* builder = builder.replace(token, value)
StrictReplace(token, value) ==
    StrictStep("replace", token, value, replace(builder, token, value))

\* the token of a descriptor, when it is one
TokenOf(value) == IF In("token", value) THEN value.token ELSE NoToken

\* builder = builder.registerFactory(value)
StrictRegisterFactory(value) ==
    StrictStep("registerFactory", TokenOf(value), value,
               strictRegisterFactory(builder, value))

\* builder = builder.replaceFactory(value)
StrictReplaceFactory(value) ==
    StrictStep("replaceFactory", TokenOf(value), value,
               replaceFactory(builder, value))

\* builder = builder.replaceFactoryArray(values)
StrictReplaceFactoryArray(values) ==
    /\ builder' = replaceFactoryArray(builder, values, 1)
    /\ nregs' = nregs + 1
    /\ written' = WroteArray(written, "replaceFactoryArray", values, 1)
    /\ last' = Did("replaceFactoryArray", 0, 0, NoToken, ArrayOf(values),
                   Ok(Null), <<>>, heap)
    /\ UNCHANGED <<manager, managers, registered, containers, scopes, cells,
                   heap, returned, finalized>>

\* builder = builder.merge(container.getState())
StrictMerge(c) ==
    /\ builder' = strictMerge(builder, containers[c].values)
    /\ nregs' = nregs + 1
    /\ written' = Spread(written, finalized[c])
    /\ last' = Did("merge", c, 0, NoToken, Null, Ok(Null), <<>>, heap)
    /\ UNCHANGED <<manager, managers, registered, containers, scopes, cells,
                   heap, returned, finalized>>

\* container = builder.getResult()
StrictGetResult ==
    /\ containers' = Append(containers, StrictContainer(builder))
    /\ returned' = Append(returned, EmptyObject)
    /\ finalized' = Append(finalized, written)
    /\ last' = Did("getResult", Len(containers) + 1, 0, NoToken, Null, Ok(Null), <<>>, heap)
    /\ UNCHANGED <<manager, managers, registered, builder, nregs, scopes,
                   cells, heap, written>>

\* builder = buildStrictDIContainer(): a new chain
StrictNewBuilder ==
    /\ builder' = EmptyObject
    /\ written' = EmptyObject
    /\ last' = Did("buildStrictDIContainer", 0, 0, NoToken, Null, Ok(Null), <<>>, heap)
    /\ UNCHANGED <<manager, managers, registered, nregs, containers, scopes,
                   cells, heap, returned, finalized>>

\* chains of the strict builder, their containers, merges of the state of a
\* container into a chain, and resolves on the containers
NextStrict ==
    \/ /\ nregs < StrictMaxRegs
       /\ \E in \in StrictPlainInputs : StrictRegister(in[1], in[2])
    \/ /\ nregs < StrictMaxRegs
       /\ \E in \in StrictPlainInputs : StrictReplace(in[1], in[2])
    \/ /\ nregs < StrictMaxRegs
       /\ \E value \in StrictFactoryInputs : StrictRegisterFactory(value)
    \/ /\ nregs < StrictMaxRegs
       /\ \E value \in StrictFactoryInputs : StrictReplaceFactory(value)
    \/ /\ nregs < StrictMaxRegs
       /\ \E values \in StrictArrayInputs : StrictReplaceFactoryArray(values)
    \/ /\ nregs < StrictMaxRegs
       /\ \E c \in 1..Len(containers) : StrictMerge(c)
    \/ Len(containers) < StrictMaxContainers /\ StrictGetResult
    \/ containers # <<>> /\ builder # EmptyObject /\ StrictNewBuilder
    \/ /\ heap < StrictMaxHeap
       /\ \E c \in 1..Len(containers), t \in StrictResolveInputs : Resolve(c, t)

SpecStrict == InitStrict /\ [][NextStrict]_vars

----------------------------------------------------------------------------
(* The manager as a state machine *)

ManagerPlainInputs == {<<TA, Plain(1)>>}

ManagerRegisterKeys == {Omitted, "default", "B"}

ManagerKeys == {Omitted, "default", "B", "C"}

\* managerBuilder = managerBuilder.registerContainer(container, key)
RegisterContainer(c, key) ==
    /\ LET r == registerContainer(manager, containers[c], key)
       IN /\ manager' = IF r.ok THEN r.val ELSE manager
          /\ registered' = IF r.ok
                           THEN Append(registered, [key |-> OrDefault(key), c |-> c])
                           ELSE registered
          /\ last' = Did("registerContainer", c, 0, NoToken, [key |-> key],
                         IF r.ok THEN Ok(Null) ELSE r, <<>>, heap)
    /\ UNCHANGED <<builder, nregs, containers, scopes, cells, heap, returned,
                   written, finalized, managers>>

\* manager = managerBuilder.getResult()
ManagerGetResult ==
    /\ managers' = Append(managers, manager)
    /\ last' = Did("managerGetResult", 0, 0, NoToken, [m |-> Len(managers) + 1],
                   Ok(Null), <<>>, heap)
    /\ UNCHANGED <<builder, nregs, containers, scopes, cells, heap, returned,
                   written, finalized, manager, registered>>

\* manager.getContainer(key)
GetContainer(m, key) ==
    /\ last' = Did("getContainer", 0, 0, NoToken, [m |-> m, key |-> key],
                   getContainer(managers[m], key), <<>>, heap)
    /\ UNCHANGED <<builder, nregs, containers, scopes, cells, heap, returned,
                   written, finalized, manager, managers, registered>>

\* manager.setDefaultContainer(key): the manager it returns is a new one
SetDefaultContainer(m, key) ==
    /\ LET r == setDefaultContainer(managers[m], key)
       IN /\ managers' = IF r.ok THEN Append(managers, r.val) ELSE managers
          /\ last' = Did("setDefaultContainer", 0, 0, NoToken, [m |-> m, key |-> key],
                         IF r.ok THEN Ok(Null) ELSE r, <<>>, heap)
    /\ UNCHANGED <<builder, nregs, containers, scopes, cells, heap, returned,
                   written, finalized, manager, registered>>

\* containers built by chains of register, a chain of registerContainer on
\* the manager builder, its managers, and the calls on the managers
NextManager ==
    \/ /\ nregs < ManagerMaxRegs
       /\ \E in \in ManagerPlainInputs : Register(in[1], in[2])
    \/ Len(containers) < ManagerMaxContainers /\ GetResult
    \/ \E c \in 1..Len(containers), key \in ManagerRegisterKeys :
           RegisterContainer(c, key)
    \/ Len(managers) < ManagerMaxManagers /\ ManagerGetResult
    \/ \E m \in 1..Len(managers), key \in ManagerKeys : GetContainer(m, key)
    \/ /\ Len(managers) < ManagerMaxManagers
       /\ \E m \in 1..Len(managers), key \in ManagerKeys \ {Omitted} :
              SetDefaultContainer(m, key)

SpecManager == Init /\ [][NextManager]_vars

----------------------------------------------------------------------------
(* createScope with the synchronous prefix of its callback *)

SyncFactoryInputs ==
    {<<TA, DIFactory(<<>>, "newA"), "undefined">>,
     <<TB, DIFactory(<<TA>>, "newB"), "scoped">>}

\* the scoped resolves a callback makes before its first await
SyncPrefixes == {<<>>, <<TB>>, <<TA, TB>>, <<TB, TC>>}

\* how the synchronous prefix of a callback ends
SyncEnds == {Awaiting, Returned(Plain(1)), Threw(CallbackError)}

\* promise = container.createScope(callback), the promise not being awaited:
\* the callback runs its synchronous prefix and then is suspended at an
\* await, returns or throws
CreateScopeCall(c, tokens, end) ==
    /\ LET s == Len(scopes) + 1
           r == createScopeCall(c, tokens, Memory(heap, cells, scopes))
           completion == IF ~r.res.ok THEN Threw(r.res) ELSE end
       IN /\ heap' = r.m.heap
          /\ cells' = r.m.cells
          /\ scopes' = [r.m.scopes EXCEPT
                            ![s].calls = AddCalls(@, r.m.trace, 1),
                            ![s].got = IF r.res.ok
                                       THEN AddReturned(@, SubSeq(tokens, 1, Len(r.res.val.items)),
                                                        r.res.val.items, 1)
                                       ELSE @,
                            ![s].callback = IF completion = Awaiting THEN Pending
                                            ELSE completion,
                            ![s].promise = IF completion = Awaiting THEN Pending
                                           ELSE createScope(completion)]
          /\ last' = Did("createScope", c, s, NoToken, ArrayOf(tokens), r.res,
                         r.m.trace, heap)
    /\ UNCHANGED <<manager, managers, registered, builder, nregs, containers,
                   returned, written, finalized>>

\* a chain of registerFactory calls, its container, createScope calls whose
\* promises are not awaited, the statements of the caller after them
\* (resolves on the container), and the callbacks going on after their await
NextSync ==
    \/ /\ containers = <<>> /\ nregs < SyncMaxRegs
       /\ \E in \in SyncFactoryInputs : RegisterFactory(in[1], in[2], in[3])
    \/ Len(containers) < SyncMaxContainers /\ GetResult
    \/ /\ Len(scopes) < SyncMaxScopes
       /\ \E c \in 1..Len(containers), tokens \in SyncPrefixes, end \in SyncEnds :
              CreateScopeCall(c, tokens, end)
       /\ heap' <= SyncMaxHeap
    \/ /\ \E s \in 1..Len(scopes), t \in {TA, TB} :
              scopes[s].promise = Pending /\ ScopedResolve(s, t)
       /\ heap' <= SyncMaxHeap
    \/ \E s \in 1..Len(scopes) : \E completion \in SyncEnds \ {Awaiting} :
           CallbackEnds(s, completion)
    \/ /\ \E c \in 1..Len(containers), t \in {TA, TB} : Resolve(c, t)
       /\ heap' <= SyncMaxHeap

SpecSync == Init /\ [][NextSync]_vars

----------------------------------------------------------------------------
(* Singletons, their dependencies and functions that return null *)

SingletonFactoryInputs ==
    {<<TA, DIFactory(<<>>, "newA"), s>> : s \in {"transient", "scoped"}}
    \cup {<<TB, DIFactory(<<TA>>, "newB"), "singleton">>,
          <<TC, DIFactory(<<>>, "returnsNull"), "singleton">>}

SingletonResolveInputs == {TA, TB, TC}

\* a chain of registerFactory calls with singletons, its container, and
\* resolves on the container and in scopes
NextSingleton ==
    \/ /\ containers = <<>> /\ nregs < SingletonMaxRegs
       /\ \E in \in SingletonFactoryInputs : RegisterFactory(in[1], in[2], in[3])
    \/ Len(containers) < SingletonMaxContainers /\ GetResult
    \/ /\ Len(scopes) < SingletonMaxScopes
       /\ \E c \in 1..Len(containers) : CreateScope(c)
    \/ /\ \E c \in 1..Len(containers), t \in SingletonResolveInputs : Resolve(c, t)
       /\ heap' <= SingletonMaxHeap
    \/ /\ \E s \in 1..Len(scopes), t \in SingletonResolveInputs : ScopedResolve(s, t)
       /\ heap' <= SingletonMaxHeap

SpecSingleton == Init /\ [][NextSingleton]_vars

----------------------------------------------------------------------------
(* The Self Token inside a scope *)

ViewFactoryInputs ==
    {<<TA, DIFactory(<<>>, "newA"), s>> : s \in {"scoped", "transient"}}
    \cup {<<TC, DIFactory(<<DIContainer>>, "useA"), s>> : s \in {"undefined", "scoped"}}

ViewResolveInputs == {DIContainer, TA, TC}

\* a chain of registerFactory calls, among them a factory that takes the
\* container and resolves TA through it, its container, and resolves on the
\* container and in scopes
NextView ==
    \/ /\ containers = <<>> /\ nregs < ViewMaxRegs
       /\ \E in \in ViewFactoryInputs : RegisterFactory(in[1], in[2], in[3])
    \/ Len(containers) < ViewMaxContainers /\ GetResult
    \/ /\ Len(scopes) < ViewMaxScopes
       /\ \E c \in 1..Len(containers) : CreateScope(c)
    \/ /\ \E c \in 1..Len(containers), t \in ViewResolveInputs : Resolve(c, t)
       /\ heap' <= ViewMaxHeap
    \/ /\ \E s \in 1..Len(scopes), t \in ViewResolveInputs : ScopedResolve(s, t)
       /\ heap' <= ViewMaxHeap

SpecView == Init /\ [][NextView]_vars

----------------------------------------------------------------------------
(* Resolutions that fail inside a scope *)

FailFactoryInputs ==
    {<<TA, DIFactory(<<>>, "newA"), "scoped">>,
     <<TB, DIFactory(<<TA, TC>>, "newB"), "scoped">>,
     <<TB, DIFactory(<<TA>>, "throws"), "scoped">>}

\* a chain of registerFactory calls with a factory whose dependency is
\* missing or whose function throws, its container, and scoped resolves
NextFail ==
    \/ /\ containers = <<>> /\ nregs < FailMaxRegs
       /\ \E in \in FailFactoryInputs : RegisterFactory(in[1], in[2], in[3])
    \/ Len(containers) < FailMaxContainers /\ GetResult
    \/ /\ Len(scopes) < FailMaxScopes
       /\ \E c \in 1..Len(containers) : CreateScope(c)
    \/ /\ \E s \in 1..Len(scopes), t \in {TA, TB} : ScopedResolve(s, t)
       /\ heap' <= FailMaxHeap

SpecFail == Init /\ [][NextFail]_vars

----------------------------------------------------------------------------
(* Vocabulary of the properties *)

\* the entry registered for token t in container c
Registered(c, t) == In(t.key, containers[c].values)

EntryOf(c, t) == containers[c].values[t.key]

IsFactory(e) == e.kind = "factory"

\* the last operation was container.resolve(token) for a token other than
\* the Self Token that has an entry
ResolvedEntry ==
    /\ last.op = "resolve"
    /\ last.token # DIContainer
    /\ Registered(last.c, last.token)

\* the keys of the factory functions invoked, in order
Keys(trace) == [i \in 1..Len(trace) |-> trace[i].key]

\* the invocations of the factory function registered for key
Invocations(trace, key) == {i \in 1..Len(trace) : trace[i].key = key}

RECURSIVE Resolvable(_, _)
\* every token reachable from t has a usable entry in container c
Resolvable(c, t) ==
    \/ t = DIContainer
    \/ /\ Registered(c, t)
       /\ ~IsNullish(EntryOf(c, t))
       /\ IsFactory(EntryOf(c, t)) =>
              /\ \A i \in 1..Len(EntryOf(c, t).dependencies) :
                     Resolvable(c, EntryOf(c, t).dependencies[i])
              /\ EntryOf(c, t).factory.fn = "useA" => Resolvable(c, TA)

RECURSIVE AllTransient(_, _)
\* no factory reachable from t is wrapped by defineSingleton
AllTransient(c, t) ==
    \/ t = DIContainer
    \/ ~Registered(c, t)
    \/ ~IsFactory(EntryOf(c, t))
    \/ /\ ~EntryOf(c, t).factory.wrapped
       /\ \A i \in 1..Len(EntryOf(c, t).dependencies) :
              AllTransient(c, EntryOf(c, t).dependencies[i])
       /\ EntryOf(c, t).factory.fn = "useA" => AllTransient(c, TA)

RECURSIVE Denotes(_, _, _)
\* v is what token t stands for in container c: the container, the registered
\* value, or the object the registered factory function builds from what its
\* dependencies stand for ("useA" builds it from what TA stands for)
Denotes(c, t, v) ==
    IF t = DIContainer THEN v = ContainerRef(c)
    ELSE /\ Registered(c, t)
         /\ IF ~IsFactory(EntryOf(c, t)) THEN v = EntryOf(c, t)
            ELSE /\ v.kind = "instance"
                 /\ v.fn = EntryOf(c, t).factory.fn
                 /\ IF v.fn = "useA"
                    THEN Len(v.parts) = 1 /\ Denotes(c, TA, v.parts[1])
                    ELSE /\ Len(v.parts) = Len(EntryOf(c, t).dependencies)
                         /\ \A i \in 1..Len(v.parts) :
                                Denotes(c, EntryOf(c, t).dependencies[i], v.parts[i])

Visiting(t) == [emit |-> FALSE, token |-> t]

Emitting(t) == [emit |-> TRUE, token |-> t]

RECURSIVE Visit(_, _)
\* the keys of the factory functions in the order a depth-first, left-to-right
\* resolution invokes them: a factory after its dependencies ("useA" resolves
\* TA from inside its body)
Visit(c, todo) ==
    IF todo = <<>> THEN <<>>
    ELSE LET t == Head(todo).token
             rest == Tail(todo)
         IN IF Head(todo).emit THEN <<t.key>> \o Visit(c, rest)
            ELSE IF t = DIContainer \/ ~Registered(c, t) THEN Visit(c, rest)
            ELSE IF ~IsFactory(EntryOf(c, t)) THEN Visit(c, rest)
            ELSE IF EntryOf(c, t).factory.fn = "useA"
                 THEN <<t.key>> \o Visit(c, <<Visiting(TA)>> \o rest)
            ELSE Visit(c, [i \in 1..Len(EntryOf(c, t).dependencies) |->
                               Visiting(EntryOf(c, t).dependencies[i])]
                          \o <<Emitting(t)>> \o rest)

\* two results are the same value: the same reference, or objects built by
\* the same function from the same parts
SameValue(v, w) ==
    IF v.kind = "instance"
    THEN w.kind = "instance" /\ v.fn = w.fn /\ v.parts = w.parts
    ELSE v = w

\* a registerFactory payload that is a descriptor: an object with a `factory`
WellFormed(value) == value.kind = "factory" /\ value.factory.fn # "undefined"

\* what container.resolve(t) of container c does in the current state: the
\* outcome, the factory functions it invokes and the memory it leaves
Outcome(c, t) == CallResolve([c |-> c, s |-> 0], t, Memory(heap, cells, scopes))

RECURSIVE EachInTurn(_, _, _, _, _)
\* resolve(tokens[i]), then resolve(tokens[i + 1]), ..., each a call of its own
\* on the memory the call before it left; acc holds the values so far, and the
\* first call that throws ends the sequence with its error
EachInTurn(via, tokens, i, m, acc) ==
    IF i > Len(tokens) THEN [res |-> Ok(ArrayOf(acc)), m |-> m]
    ELSE LET r == CallResolve(via, tokens[i], m)
         IN IF ~r.res.ok THEN [res |-> r.res, m |-> r.m]
            ELSE CHOOSE end \in {EachInTurn(via, tokens, i + 1, next.m,
                                            Append(acc, next.res.val)) :
                                     next \in {r}} : TRUE

\* the keys of the dependencies declared by the factory registered for key
DepsOf(c, key) ==
    IF In(key, containers[c].values) /\ ~IsNullish(containers[c].values[key])
       /\ IsFactory(containers[c].values[key])
    THEN {containers[c].values[key].dependencies[i].key :
              i \in 1..Len(containers[c].values[key].dependencies)}
    ELSE {}

RECURSIVE Reach(_, _)
\* the keys reachable from the keys of S along declared dependencies
Reach(c, S) ==
    LET T == S \cup UNION {DepsOf(c, k) : k \in S}
    IN IF T = S THEN S ELSE Reach(c, T)

\* the dependency graph reachable from token t in container c has a cycle
CycleFrom(c, t) ==
    \E k \in Reach(c, {t.key}) : k \in Reach(c, DepsOf(c, k))

\* every token listed in index has an entry in values
Listed(index, values) ==
    \A k \in DOMAIN index : \A i \in 1..Len(index[k]) : In(index[k][i].key, values)

\* what a resolve does, apart from the identities of the objects it builds:
\* whether it returns, and the factory functions it invokes
Course(o) == [ok |-> o.res.ok, invoked |-> Keys(o.m.trace)]

\* the operations of the builder
BuilderOps == {"buildDIContainer", "register", "registerFactory", "merge"}

\* token declares base in metadata.implements
Implements(token, base) ==
    token.metadata.has /\ Includes(token.metadata.implements, base)

\* the number of times token is listed
Count(list, token) == Cardinality({i \in 1..Len(list) : list[i] = token})

\* the chain container c was finalized from performed a merge
MergedChain(c) ==
    \E k \in DOMAIN finalized[c] : finalized[c][k].merged # "no"

----------------------------------------------------------------------------
(* Properties *)

\* C1: register(T, V) followed by getResult().resolve(T) returns V itself,
\* for every token T other than the Self Token and every plain value V, null
\* and undefined included.
C1_PlainValueReturned ==
    (/\ last.op = "resolve"
     /\ In(last.token.key, finalized[last.c])
     /\ finalized[last.c][last.token.key].by = "register")
    => last.res = Ok(finalized[last.c][last.token.key].value)

\* C2: resolve of a token registered with a factory descriptor resolves the
\* dependencies recursively, in declared order, and returns
\* factory(...resolvedDeps) with the arguments in dependency order; a chain of
\* factories yields the nested application down to the registered base value.
C2_FactoryApplication ==
    (ResolvedEntry /\ IsFactory(EntryOf(last.c, last.token))
        /\ Resolvable(last.c, last.token))
    => /\ last.res.ok
       /\ Denotes(last.c, last.token, last.res.val)
       /\ AllTransient(last.c, last.token) =>
              /\ Keys(last.trace) = Visit(last.c, <<Visiting(last.token)>>)
              /\ last.res.val.id > last.heap0
              /\ \E i \in 1..Len(last.trace) :
                     /\ last.trace[i].key = last.token.key
                     /\ last.trace[i].fn = last.res.val.fn
                     /\ last.res.val.id = last.heap0 + i
                     /\ last.res.val.fn # "useA" =>
                            last.trace[i].args = last.res.val.parts

C2_Chain ==
    /\ last.op = "resolve"
    /\ last.res = Ok(Instance(2, "newC", <<Instance(1, "newB", <<Plain(1)>>)>>))

C5_LastWriteWins ==
    /\ (/\ last.op \in {"register", "registerFactory"}
        /\ last.token # DIContainer
        /\ In(last.token.key, builder.values)
        /\ last.res.ok => written[last.token.key].prev # "none")
       => /\ last.res.ok
          /\ IF last.op = "register"
             THEN builder.values[last.token.key] = last.arg
             ELSE /\ IsFactory(builder.values[last.token.key])
                  /\ builder.values[last.token.key].dependencies
                         = last.arg.value.dependencies
                  /\ builder.values[last.token.key].factory.fn
                         = last.arg.value.factory.fn
                  /\ builder.values[last.token.key].scope = last.arg.scope
    /\ (/\ last.op = "resolve"
        /\ In(last.token.key, finalized[last.c])
        /\ finalized[last.c][last.token.key].prev # "none")
       => LET w == finalized[last.c][last.token.key]
          IN IF w.by = "register"
             THEN ~IsNullish(w.value) => last.res = Ok(w.value)
             ELSE last.res.ok =>
                      /\ last.res.val.kind = "instance"
                      /\ last.res.val.fn = w.value.factory.fn

C5_FactoryOverValue ==
    /\ last.op = "resolve"
    /\ last.res.ok
    /\ In(last.token.key, finalized[last.c])
    /\ finalized[last.c][last.token.key].by = "registerFactory"
    /\ finalized[last.c][last.token.key].prev = "register"

\* C6: register(SelfToken, v) and registerFactory(SelfToken, descriptor)
\* throw "DIContainer cannot be registered" and leave the builder as it was.
C6_SelfTokenReserved ==
    [][/\ \A in \in PlainInputs :
              (in[1] = DIContainer /\ Register(in[1], in[2]))
              => /\ last'.res = ReservedTokenError
                 /\ UNCHANGED <<builder, nregs, cells, written>>
       /\ \A in \in FactoryInputs :
              (in[1] = DIContainer /\ IsFactory(in[2])
                  /\ RegisterFactory(in[1], in[2], in[3]))
              => /\ last'.res = ReservedTokenError
                 /\ UNCHANGED <<builder, nregs, cells, written>>]_vars

C6_Refused ==
    /\ last.op = "registerFactory"
    /\ last.res = ReservedTokenError
    /\ nregs > 0

\* C7: container.resolve(SelfToken) returns that container itself, whatever
\* the state holds; a factory that lists the Self Token as a dependency
\* receives the container, and resolve(T) through it gives what resolve(T) on
\* the container gives.
C7_SelfToken ==
    /\ (last.op = "resolve" /\ last.token = DIContainer)
       => last.res = Ok(ContainerRef(last.c)) /\ last.trace = <<>>
    /\ (ResolvedEntry /\ IsFactory(EntryOf(last.c, last.token)))
       => LET e == EntryOf(last.c, last.token)
              direct == CallResolve([c |-> last.c, s |-> 0], TA,
                                    Memory(heap, cells, scopes)).res
          IN \A i \in 1..Len(e.dependencies) :
                 e.dependencies[i] = DIContainer
                 => /\ \E n \in Invocations(last.trace, last.token.key) :
                           last.trace[n].args[i] = ContainerRef(last.c)
                    /\ e.factory.fn = "useA" =>
                           IF direct.ok
                           THEN /\ last.res.ok
                                /\ SameValue(last.res.val.parts[1], direct.val)
                           ELSE last.res = direct

C7_FactoryUsesContainer ==
    /\ ResolvedEntry
    /\ last.res.ok
    /\ last.res.val.kind = "instance"
    /\ last.res.val.fn = "useA"
    /\ last.res.val.parts = <<Plain(1)>>

\* C8: for a factory registered with no scope or with scope "transient", every
\* container.resolve(token) invokes the factory once more and resolves its
\* dependencies again; the result is an instance no earlier call returned.
C8_Transient ==
    (/\ ResolvedEntry
     /\ IsFactory(EntryOf(last.c, last.token))
     /\ EntryOf(last.c, last.token).scope \in {"undefined", "transient"}
     /\ last.res.ok)
    => LET e == EntryOf(last.c, last.token)
       IN /\ Cardinality(Invocations(last.trace, last.token.key)) = 1
          /\ last.res.val.kind = "instance"
          /\ last.res.val.id > last.heap0
          /\ \A v \in returned[last.c][last.token.key] :
                 v # last.res.val => v.id < last.res.val.id
          /\ \A i \in 1..Len(e.dependencies) :
                 (/\ e.dependencies[i] # DIContainer
                  /\ Registered(last.c, e.dependencies[i])
                  /\ IsFactory(EntryOf(last.c, e.dependencies[i]))
                  /\ ~EntryOf(last.c, e.dependencies[i]).factory.wrapped)
                 => Invocations(last.trace, e.dependencies[i].key) # {}

C8_TwoResolutions ==
    /\ ResolvedEntry
    /\ last.token = TB
    /\ IsFactory(EntryOf(last.c, TB))
    /\ EntryOf(last.c, TB).scope = "transient"
    /\ last.res.ok
    /\ Cardinality(returned[last.c]["B"]) = 2

\* C9: for a factory registered with scope "singleton", any two resolve calls
\* for its token on one container return the same instance, whatever other
\* resolve or createScope calls happen in between.
C9_Singleton ==
    \A c \in 1..Len(containers) :
        \A key \in DOMAIN returned[c] :
            (/\ In(key, containers[c].values)
             /\ IsFactory(containers[c].values[key])
             /\ containers[c].values[key].scope = "singleton")
            => Cardinality(returned[c][key]) <= 1

C9_ServedAgain ==
    /\ ResolvedEntry
    /\ last.token = TB
    /\ IsFactory(EntryOf(last.c, TB))
    /\ EntryOf(last.c, TB).scope = "singleton"
    /\ last.res.ok
    /\ last.trace = <<>>
    /\ scopes # <<>>

ScopedKey(c, key) ==
    /\ In(key, containers[c].values)
    /\ IsFactory(containers[c].values[key])
    /\ containers[c].values[key].scope = "scoped"

\* C11: each createScope call has its own cache: two createScope invocations
\* on one container, sequential or interleaved, never share an instance of a
\* scoped token, and a scope's cache is populated only by the factory
\* invocations made through that scope.
C11_ScopesIsolated ==
    \A s1 \in 1..Len(scopes), s2 \in 1..Len(scopes) :
        (s1 # s2 /\ scopes[s1].c = scopes[s2].c)
        => \A key \in DOMAIN containers[scopes[s1].c].values :
               ScopedKey(scopes[s1].c, key)
               => /\ (In(key, scopes[s1].got) /\ In(key, scopes[s2].got))
                     => scopes[s1].got[key] \cap scopes[s2].got[key] = {}
                  /\ (In(key, scopes[s1].instances) /\ In(key, scopes[s2].instances))
                     => scopes[s1].instances[key] # scopes[s2].instances[key]
                  /\ (In(key, scopes[s1].instances) \/ In(key, scopes[s1].got))
                     => In(key, scopes[s1].calls) /\ scopes[s1].calls[key] = 1

C11_Interleaved ==
    /\ Len(scopes) = 2
    /\ ScopedKey(scopes[1].c, "B")
    /\ In("B", scopes[1].instances)
    /\ In("B", scopes[2].instances)
    /\ last.op = "scopedResolve"
    /\ last.s = 1
    /\ last.token = TB
    /\ last.trace = <<>>
    /\ last.res.ok

\* C12: inside one scope a scoped token resolved as a dependency of another
\* factory is cached under its own token: every factory depending on it in
\* that scope receives the cached instance, and so does a direct resolution.
C12_ScopedDependency ==
    /\ last.op \in {"scopedResolve", "scopedResolveArray"}
       => \A n \in 1..Len(last.trace) :
              LET deps == containers[last.c].values[last.trace[n].key].dependencies
              IN \A i \in 1..Len(deps) :
                     (deps[i] # DIContainer /\ ScopedKey(last.c, deps[i].key))
                     => /\ In(deps[i].key, scopes[last.s].instances)
                        /\ last.trace[n].args[i]
                               = scopes[last.s].instances[deps[i].key]
    /\ (last.op = "scopedResolve" /\ last.res.ok
           /\ ScopedKey(last.c, last.token.key))
       => /\ In(last.token.key, scopes[last.s].instances)
          /\ last.res.val = scopes[last.s].instances[last.token.key]

C12_SiblingsThenDirect ==
    /\ last.op = "scopedResolve"
    /\ last.token = TB
    /\ ScopedKey(last.c, "B")
    /\ last.res.ok
    /\ last.trace = <<>>
    /\ In("C", scopes[last.s].calls)
    /\ In("D", scopes[last.s].calls)

\* C13: merge yields the union of both states: a token registered in the
\* receiver's chain or in a merged state (finalized[c] holds the union) is
\* found by resolve in the container finalized from the chain.
C13_MergeIsUnion ==
    (/\ last.op = "resolve"
     /\ In(last.token.key, finalized[last.c]))
    => last.res # NotFound(last.token.key)

\* C14: when the receiver and the merged state both hold a registration for
\* token T, resolve(T) in the container finalized after the merge answers
\* from the merged state's registration: its value, or an object built by its
\* factory function.
C14_LaterStateWins ==
    (/\ last.op = "resolve"
     /\ In(last.token.key, finalized[last.c])
     /\ finalized[last.c][last.token.key].merged = "collision")
    => LET w == finalized[last.c][last.token.key]
       IN IF w.by = "register" THEN last.res = Ok(w.value)
          ELSE /\ last.res # NotFound(last.token.key)
               /\ last.res.ok => /\ last.res.val.kind = "instance"
                                 /\ last.res.val.fn = w.value.factory.fn

C14_Collision ==
    /\ last.op = "resolve"
    /\ last.token = TA
    /\ In("A", finalized[last.c])
    /\ finalized[last.c]["A"].merged = "collision"
    /\ last.res = Ok(Plain(1))
    /\ last.c > 1
    /\ containers[last.c].values = containers[1].values
    /\ \E k \in DOMAIN finalized[last.c] : finalized[last.c][k].merged = "receiver"

\* C15: findImplementationTokens(base), without generics, on a container
\* finalized after a merge lists every implementor of base registered in the
\* receiver's chain or in a merged state, and lists once an implementor that
\* was registered once.
C15_MergedIndex ==
    (/\ last.op = "findImplementationTokens"
     /\ ~last.arg.given
     /\ MergedChain(last.c))
    => \A k \in DOMAIN finalized[last.c] :
           LET w == finalized[last.c][k]
           IN Implements(w.token, last.token)
              => /\ Count(last.res.val.items, w.token) >= 1
                 /\ w.n = 1 => Count(last.res.val.items, w.token) = 1

C17_GenericsFilter ==
    (/\ last.op = "findImplementationTokens"
     /\ last.arg.given)
    => /\ last.res.ok
       /\ last.res.val.items
              = SelectSeq(findImplementationTokens(containers[last.c], last.token,
                                                   NoGenerics),
                          LAMBDA t : \A i \in 1..Len(last.arg.tokens) :
                                         Includes(t.metadata.generics,
                                                  last.arg.tokens[i]))

\* C19: registerFactory(T, payload, scope), T not the Self Token, throws the
\* invalid-factory error whenever the payload is not an object, is null, or is
\* an object without a `factory`.
C19_InvalidPayloadRejected ==
    (/\ last.op = "registerFactory"
     /\ last.token # DIContainer
     /\ ~WellFormed(last.arg.value))
    => last.res = InvalidFactoryError

\* C18: register, registerFactory, merge and buildDIContainer leave every
\* finalized container as it was: its state is unchanged and resolve of each
\* token has the same outcome after the builder operation as before it.
C18_CopyOnWrite ==
    [][last'.op \in BuilderOps
       => \A c \in 1..Len(containers) :
              /\ Len(containers') >= c
              /\ containers'[c] = containers[c]
              /\ \A t \in MergeResolveInputs \cup {DIContainer} :
                     Outcome(c, t)' = Outcome(c, t)]_vars

C18_RegisteredAfterGetResult ==
    /\ last.op = "register"
    /\ last.res.ok
    /\ Len(containers) >= 1
    /\ In(last.token.key, containers[1].values)
    /\ containers[1].values[last.token.key] # builder.values[last.token.key]
    /\ finalized[1] # written
    /\ written[last.token.key].n = 2

\* C20: resolveArray(tokens), on a container or in a scope, does what
\* resolve(tokens[1]), ..., resolve(tokens[n]) do when called one after the
\* other: it returns the array of their values, of the length of tokens, or
\* throws the error of the first call that fails, with the effects of the
\* calls up to that one and of no later one.
C20_ResolveArrayInOrder ==
    [][last'.op \in {"resolveArray", "scopedResolveArray"}
       => LET e == EachInTurn([c |-> last'.c, s |-> last'.s], last'.arg, 1,
                              Memory(heap, cells, scopes), <<>>)
          IN /\ last'.res = e.res
             /\ last'.trace = e.m.trace
             /\ heap' = e.m.heap
             /\ cells' = e.m.cells
             /\ Len(scopes') = Len(e.m.scopes)
             /\ \A s \in 1..Len(scopes') :
                    scopes'[s].instances = e.m.scopes[s].instances
             /\ last'.res.ok => Len(last'.res.val.items) = Len(last'.arg)]_vars

C20_FirstFails ==
    /\ last.op = "resolveArray"
    /\ last.arg = <<TC, TB>>
    /\ last.res = NotFound("C")
    /\ Resolvable(last.c, TB)
    /\ IsFactory(EntryOf(last.c, TB))
    /\ ~In("B", returned[last.c])
    /\ last.trace = <<>>
    /\ heap = last.heap0

\* C21: the promise createScope(callback) returns is fulfilled with the value
\* the callback returns or its promise is fulfilled with, and rejected with
\* the error the callback throws or its promise is rejected with; while the
\* callback runs the promise is pending.
C21_CallbackOutcome ==
    \A s \in 1..Len(scopes) :
        LET cb == scopes[s].callback
        IN IF cb = Pending THEN scopes[s].promise = Pending
           ELSE IF cb.how \in {"return", "fulfilled"}
           THEN scopes[s].promise = Fulfilled(cb.val)
           ELSE scopes[s].promise = Rejected(cb.err)

C21_NotFoundPropagates ==
    /\ last.op = "callback"
    /\ last.arg = Threw(NotFound("A"))
    /\ scopes[last.s].promise = Rejected(NotFound("A"))
    /\ \E s \in 1..Len(scopes) :
           /\ s # last.s
           /\ scopes[s].promise = Fulfilled(Plain(1))

\* C22: when the graph of declared dependencies reachable from token T has a
\* cycle, resolve(T) on the container and in a scope ends in an error,
\* whatever the scopes of the factories.
C22_CycleThrows ==
    (/\ last.op \in {"resolve", "scopedResolve"}
     /\ CycleFrom(last.c, last.token))
    => ~last.res.ok

C22_CycleBehindDependency ==
    /\ last.op = "scopedResolve"
    /\ last.token = TC
    /\ last.res = RangeError
    /\ ~("C" \in Reach(last.c, DepsOf(last.c, "C")))
    /\ CycleFrom(last.c, TC)
    /\ EntryOf(last.c, TA).scope = "singleton"
    /\ EntryOf(last.c, TB).scope = "scoped"

\* C23: in the state of the builder after any sequence of register,
\* registerFactory and merge, and so in the state of every container, each
\* token listed in `implementations` or in `references` has an entry in
\* `values`.
C23_ListedTokensHaveEntries ==
    /\ Listed(builder.implementations, builder.values)
    /\ Listed(builder.references, builder.values)
    /\ \A c \in 1..Len(containers) :
           /\ Listed(containers[c].implementations, containers[c].values)
           /\ Listed(containers[c].references, containers[c].values)

C23_IndexAfterMerge ==
    /\ last.op = "merge"
    /\ In("Base", builder.implementations)
    /\ In("Prod", builder.references)
    /\ In("B", written)
    /\ written["B"].merged = "receiver"
    /\ ~In("B", builder.values)

\* C24: the key of the Self Token is never a key of `values`, in the state of
\* the builder and in the state of every container.
C24_SelfKeyAbsent ==
    /\ ~In(DIContainer.key, builder.values)
    /\ \A c \in 1..Len(containers) : ~In(DIContainer.key, containers[c].values)

\* C25: a registration slot belongs to one token object: when resolve(T)
\* returns a registered entry or an object built by a registered factory,
\* the registration was made under T itself, not under another token created
\* with the same key.
C25_SlotPerToken ==
    (/\ last.op = "resolve"
     /\ last.token # DIContainer
     /\ last.res.ok)
    => /\ In(last.token.key, finalized[last.c])
       /\ finalized[last.c][last.token.key].token = last.token

\* C26: a resolve, a scoped resolve or a createScope on one container leaves
\* every resolve on every other container as it was: it returns or throws as
\* before and invokes the same factory functions.
C26_NoSharedState ==
    [][last'.op \in {"resolve", "scopedResolve", "createScope"}
       => \A d \in 1..Len(containers), t \in SharedResolveInputs :
              d # last'.c => Course(Outcome(d, t)') = Course(Outcome(d, t))]_vars

\* C27: in the strict builder, register(token, value) and
\* registerFactory(descriptor) on a token that has an entry throw the
\* already-registered error and return no builder: the state is the one
\* before the call, and the entry of the token is still the one of its
\* earlier registration.
C27_AlreadyRegistered ==
    [][/\ \A in \in StrictPlainInputs :
              (In(in[1].key, written) /\ StrictRegister(in[1], in[2]))
              => /\ last'.res = AlreadyRegistered(in[1].key)
                 /\ builder' = builder /\ containers' = containers
                 /\ builder'[in[1].key] = written[in[1].key].value
       /\ \A value \in StrictFactoryInputs :
              (/\ In("token", value) /\ In(value.token.key, written)
               /\ StrictRegisterFactory(value))
              => /\ last'.res = AlreadyRegistered(value.token.key)
                 /\ builder' = builder /\ containers' = containers
                 /\ builder'[value.token.key] = written[value.token.key].value
      ]_vars

C27_SecondRegisterThrows ==
    /\ last.op = "register"
    /\ last.arg = Plain(2)
    /\ last.res = AlreadyRegistered("A")
    /\ builder["A"] = Plain(1)
    /\ written["A"].by = "register"

\* every dependency of every factory of a state has an entry in the state
DependenciesExist(state) ==
    \A k \in DOMAIN state :
        (~IsNullish(state[k]) /\ HasDependencies(state[k]))
        => \A i \in 1..Len(state[k].dependencies) :
               In(state[k].dependencies[i].key, state)

\* C28: in every state of the strict builder and of its containers, each
\* dependency of each registered factory has an entry, and resolve of a
\* registered token on a strict container never throws not-found.
C28_DependenciesExist ==
    /\ DependenciesExist(builder)
    /\ \A c \in 1..Len(containers) : DependenciesExist(containers[c].values)
    /\ (/\ last.op = "resolve"
        /\ In(last.token.key, containers[last.c].values))
       => (last.res.ok \/ last.res.err # NotFound("").err)

\* the key was passed to a registerContainer that returned a builder
RegisteredKey(key) == \E i \in 1..Len(registered) : registered[i].key = key

C30_NotFoundNamesKey ==
    (/\ last.op \in {"getContainer", "setDefaultContainer"}
     /\ ~RegisteredKey(OrCurrent(managers[last.arg.m], last.arg.key)))
    => last.res = ContainerNotFound(OrCurrent(managers[last.arg.m], last.arg.key))

\* the container that the successful registerContainer call for the key got
RegisteredAs(key) ==
    registered[CHOOSE i \in 1..Len(registered) : registered[i].key = key].c

\* C31: setDefaultContainer(k) for a registered k returns a new manager whose
\* getContainer() is a container over the state of the container registered
\* under k (a container resolves from its state alone), and the manager it
\* was called on keeps its current-container key and its getContainer()
\* result; with the default key current, getContainer() is a container over
\* the state of the container registered without a key.
C31_SwitchIsANewManager ==
    [][\A m \in 1..Len(managers), key \in ManagerKeys \ {Omitted} :
           (In(key, managers[m].containers) /\ SetDefaultContainer(m, key))
           => /\ Len(managers') = Len(managers) + 1
              /\ RegisteredKey(key)
              /\ getContainer(managers'[Len(managers')], Omitted) =
                     Ok([kind |-> "container", state |-> containers[RegisteredAs(key)]])
              /\ managers'[m] = managers[m]
              /\ getContainer(managers'[m], Omitted) = getContainer(managers[m], Omitted)
              /\ manager' = manager
              /\ (/\ In("default", managers[m].containers)
                  /\ managers[m].currentContainer = "default")
                 => getContainer(managers[m], Omitted) =
                        Ok([kind |-> "container",
                            state |-> containers[RegisteredAs("default")]])
      ]_vars

C31_SwitchedToB ==
    /\ last.op = "setDefaultContainer"
    /\ last.arg.key = "B"
    /\ last.res.ok
    /\ Len(managers) = 2
    /\ managers[1].currentContainer = "default"
    /\ managers[2].currentContainer = "B"
    /\ In("default", managers[2].containers)
    /\ managers[2].containers["B"] # managers[2].containers["default"]

\* the token is registered with scope "scoped" in container c
IsScoped(c, token) ==
    /\ In(token.key, containers[c].values)
    /\ In("scope", containers[c].values[token.key])
    /\ containers[c].values[token.key].scope = "scoped"

\* C32: when createScope has returned its promise, awaited or not, the
\* callback has made every resolve of its synchronous prefix: each has
\* returned its value, and each scoped token among them is in the cache of
\* the scope with the instance that was returned.
C32_CallbackStartsAtOnce ==
    (/\ last.op = "createScope"
     /\ last.arg.kind = "array"
     /\ last.res.ok)
    => /\ Len(last.res.val.items) = Len(last.arg.items)
       /\ \A i \in 1..Len(last.arg.items) :
              IsScoped(last.c, last.arg.items[i])
              => /\ In(last.arg.items[i].key, scopes[last.s].instances)
                 /\ scopes[last.s].instances[last.arg.items[i].key] =
                        last.res.val.items[i]

C32_CachedBeforeAwait ==
    /\ last.op = "createScope"
    /\ last.arg = ArrayOf(<<TA, TB>>)
    /\ last.res.ok
    /\ scopes[last.s].promise = Pending
    /\ In("B", scopes[last.s].instances)
    /\ scopes[last.s].instances["B"].kind = "instance"

\* the entry of key in container c is a factory wrapped by defineSingleton
IsSingleton(c, key) ==
    /\ In(key, containers[c].values)
    /\ IsFactory(containers[c].values[key])
    /\ containers[c].values[key].factory.wrapped

\* the `instance` variable of the closure registered for key in container c
CellOf(c, key) == containers[c].values[key].factory.cell

\* C33: once the function of a singleton has been invoked and has returned
\* (its `instance` is no longer undefined), every later resolve of the token,
\* on the container or in a scope, returns that first instance and does not
\* invoke the function again, whatever its dependencies now resolve to.
C33_FirstCallWins ==
    [][(/\ last'.op \in {"resolve", "scopedResolve"}
        /\ IsSingleton(last'.c, last'.token.key)
        /\ cells[CellOf(last'.c, last'.token.key)] # Undefined)
       => /\ last'.res = Ok(cells[CellOf(last'.c, last'.token.key)])
          /\ cells'[CellOf(last'.c, last'.token.key)] =
                 cells[CellOf(last'.c, last'.token.key)]
          /\ Invocations(last'.trace, last'.token.key) = {}
      ]_vars

\* C36: the function of a singleton-registered factory is invoked at most
\* once: a resolve, on a container or in a scope, invokes it only while the
\* `instance` of its closure is still undefined (it has not returned before),
\* and then once.
C36_InvokedAtMostOnce ==
    [][last'.op \in {"resolve", "scopedResolve"}
       => \A i \in 1..Len(last'.trace) :
              IsSingleton(last'.c, last'.trace[i].key)
              => /\ cells[CellOf(last'.c, last'.trace[i].key)] = Undefined
                 /\ Cardinality(Invocations(last'.trace, last'.trace[i].key)) = 1
      ]_vars

\* C37: once container.resolve has returned the instance of a singleton
\* token, a later resolve of the token invokes no factory function at all.
C37_NothingRunsAgain ==
    (/\ last.op = "resolve"
     /\ IsSingleton(last.c, last.token.key)
     /\ In(last.token.key, returned[last.c])
     /\ last.res.ok
     /\ Invocations(last.trace, last.token.key) = {})
    => last.trace = <<>>

\* C34: container.resolve of a token registered with scope "scoped" invokes
\* the factory function once on every call and returns the object of that
\* invocation, and no instances cache of a scope ever holds an object that
\* container.resolve returned for the token.
C34_ScopedIsTransientOutside ==
    /\ (/\ last.op = "resolve"
        /\ IsScoped(last.c, last.token)
        /\ last.res.ok)
       => /\ Cardinality(Invocations(last.trace, last.token.key)) = 1
          /\ last.res.val.kind = "instance"
          /\ last.res.val.id > last.heap0
    /\ \A s \in 1..Len(scopes) :
           \A key \in DOMAIN scopes[s].instances :
               In(key, returned[scopes[s].c])
               => scopes[s].instances[key] \notin returned[scopes[s].c][key]

C34_DirectThenScope ==
    /\ last.op = "scopedResolve"
    /\ last.token = TB
    /\ IsScoped(last.c, TB)
    /\ last.res.ok
    /\ In("B", returned[last.c])
    /\ Cardinality(returned[last.c]["B"]) = 2
    /\ Invocations(last.trace, "B") # {}

\* C35: in a scope the Self Token resolves to a view of the container that
\* resolves in the scope: the object a factory got for a scoped token through
\* that view is the instance in the cache of the scope, the one every direct
\* resolve of the token in the scope returns.
C35_ScopedView ==
    /\ (last.op = "scopedResolve" /\ last.token = DIContainer)
       => last.res = Ok(ScopedView(last.s))
    /\ (/\ last.op = "scopedResolve"
        /\ last.token = TC
        /\ last.res.ok
        /\ IsScoped(last.c, TA))
       => /\ In("A", scopes[last.s].instances)
          /\ last.res.val.parts = <<scopes[last.s].instances["A"]>>
          /\ In("A", scopes[last.s].got)
             => scopes[last.s].got["A"] = {scopes[last.s].instances["A"]}

C35_ThroughTheView ==
    /\ last.op = "scopedResolve"
    /\ last.token = TC
    /\ last.res.ok
    /\ IsScoped(last.c, TA)
    /\ Keys(last.trace) = <<"C", "A">>
    /\ In("A", scopes[last.s].instances)

\* C38: findImplementationTokens(base) lists no token twice, and lists no
\* token whose key is held by a registration that does not declare base in
\* its metadata.implements.
C38_IndexMatchesRegistrations ==
    (/\ last.op = "findImplementationTokens"
     /\ last.res.ok)
    => \A i \in 1..Len(last.res.val.items) :
           LET token == last.res.val.items[i]
           IN /\ Count(last.res.val.items, token) = 1
              /\ In(token.key, finalized[last.c])
                 => Implements(finalized[last.c][token.key].token, last.token)

RECURSIVE Walk(_, _, _)
\* the tokens of `work` and their dependencies in declared depth-first
\* order ("useA" resolves TA in its body), up to the first one without an
\* entry: that key ("" when there is none) and the keys met before it
Walk(c, work, seen) ==
    IF work = <<>> THEN [missing |-> "", seen |-> seen]
    ELSE LET t == Head(work)
         IN IF t = DIContainer THEN Walk(c, Tail(work), seen)
            ELSE IF ~Registered(c, t) THEN [missing |-> t.key, seen |-> seen]
            ELSE IF ~IsNullish(EntryOf(c, t)) /\ IsFactory(EntryOf(c, t))
            THEN Walk(c,
                      EntryOf(c, t).dependencies
                          \o (IF EntryOf(c, t).factory.fn = "useA" THEN <<TA>> ELSE <<>>)
                          \o Tail(work),
                      seen \cup {t.key})
            ELSE Walk(c, Tail(work), seen \cup {t.key})

\* C39: when the dependency graph reachable from T has no cycle,
\* container.resolve(T) ends with a value or with the not-found error for the
\* first token without an entry in declared depth-first order, and then it has
\* invoked no factory function of a token declared after that one.
C39_AcyclicTerminates ==
    (/\ last.op = "resolve"
     /\ ~CycleFrom(last.c, last.token))
    => LET w == Walk(last.c, <<last.token>>, {})
       IN IF w.missing = "" THEN last.res.ok
          ELSE /\ last.res = NotFound(w.missing)
               /\ \A i \in 1..Len(last.trace) : last.trace[i].key \in w.seen

\* C40: a scopedResolve of a scoped token that throws leaves the token
\* without an entry in the instances of the scope, and leaves every entry
\* the cache had in place; the scoped dependencies whose functions returned
\* during the call are cached.
C40_FailureCachesNothing ==
    [][(/\ last'.op = "scopedResolve"
        /\ ScopedKey(last'.c, last'.token.key)
        /\ ~last'.res.ok)
       => /\ ~In(last'.token.key, scopes'[last'.s].instances)
          /\ \A k \in DOMAIN scopes[last'.s].instances :
                 /\ In(k, scopes'[last'.s].instances)
                 /\ scopes'[last'.s].instances[k] = scopes[last'.s].instances[k]
          /\ \A i \in 1..Len(last'.trace) :
                 (/\ last'.trace[i].key # last'.token.key
                  /\ last'.trace[i].fn # "throws"
                  /\ ScopedKey(last'.c, last'.trace[i].key))
                 => In(last'.trace[i].key, scopes'[last'.s].instances)
      ]_vars

C40_FailsAgain ==
    /\ last.op = "scopedResolve"
    /\ last.token = TB
    /\ last.res = FactoryError
    /\ Keys(last.trace) = <<"B">>
    /\ In("B", scopes[last.s].calls)
    /\ scopes[last.s].calls["B"] = 2
    /\ In("A", scopes[last.s].instances)
    /\ ~In("B", scopes[last.s].instances)

====
